---- MODULE Spec2Model ----
(***************************************************************************)
(* Model of the volleyball statistics application (src/app.py and          *)
(* src/importar_partido_streamlit.py).                                     *)
(*                                                                         *)
(* The state is the relational store the queries read: the tables          *)
(* partidos_new, acciones_new and jugadores, plus the position of every    *)
(* browser session inside the import handlers.  The analytics functions    *)
(* (the obtener_ functions) are SQL queries over the committed rows; they   *)
(* are modelled as operators over the committed part of acciones_new.     *)
(*                                                                         *)
(* Conventions                                                             *)
(*  - acciones_new is a sequence: the position of a row is the order of    *)
(*    its serial id (ids are only ever used for ORDER BY id).              *)
(*  - a nullable integer is <<>> (SQL NULL / Python None) or <<v>>.        *)
(*  - a nullable text column holds the string "NULL" for SQL NULL.         *)
(*  - a percentage with one decimal is held as an integer number of        *)
(*    tenths (66.7 is 667).                                                *)
(*  - marca "NaN" is a missing mark of the spreadsheet (pandas NaN), and   *)
(*    marca "x" stands for any symbol outside the six valid ones.          *)
(***************************************************************************)
EXTENDS Integers, Sequences, FiniteSets, TLC

VARIABLES partidos_new, acciones_new, jugadores, seq_partido, sesion, cache_data, lector,
          nombre_archivo, reimport, importacion,
          sesiones, session_state, seq_token, retirados, ahora, llamadas

\* The match store and the import and reader sessions
vars_datos == <<partidos_new, acciones_new, jugadores, seq_partido, sesion, cache_data, lector,
                nombre_archivo, reimport, importacion>>

\* The sesiones table, st.session_state of each browser session and the clock
vars_acceso == <<sesiones, session_state, seq_token, retirados, ahora, llamadas>>

vars == <<vars_datos, vars_acceso>>

(***************************************************************************)
(* Bounds of the model.                                                    *)
(***************************************************************************)
NumSesiones == 2

MaxAcciones == 3

MaxPartidos == 2

\* Browser sessions that only read
NumLectores == 1

\* Tokens crear_sesion draws in a run
MaxTokens == 3

\* Seconds of clock time in a run
MaxTiempo == 120

Sesiones == 1..NumSesiones

Lectores == 1..NumLectores

(***************************************************************************)
(* Domain values.                                                          *)
(***************************************************************************)
acciones_validas == {"recepción", "colocación", "atacar", "saque", "defensa", "bloqueo"}

marcas_validas == {"#", "+", "!", "-", "/", "="}

Nulo == <<>>

Valor(v) == <<v>>

Abs(n) == IF n < 0 THEN -n ELSE n

(***************************************************************************)
(* Rounding.  pandas .round(1) and Python round(x, 1) round the binary     *)
(* double half-to-even; PostgreSQL ROUND(numeric, 1) rounds half away      *)
(* from zero.  Both take the exact quotient num/den (den > 0) and return   *)
(* the rounded integer; callers pass num = 1000 * count to get tenths of   *)
(* a percent.                                                              *)
(***************************************************************************)
\* Truncation towards minus infinity instead of rounding
RoundHaciaAbajo(num, den) == num \div den

RoundHalfEven(num, den) ==
    LET q == num \div den
        r == num % den
    IN  IF 2 * r < den THEN q
        ELSE IF 2 * r > den THEN q + 1
        ELSE IF q % 2 = 0 THEN q ELSE q + 1

RoundHalfAway(num, den) ==
    LET a == Abs(num)
        q == a \div den
        r == a % den
        m == IF 2 * r >= den THEN q + 1 ELSE q
    IN  IF num < 0 THEN -m ELSE m

(***************************************************************************)
(* Committed view of the store.  A partido row is in partidos_new once its *)
(* transaction has committed; rows of acciones_new that belong to a        *)
(* partido of an open transaction are not visible to any query.            *)
(***************************************************************************)
Visibles == SelectSeq(acciones_new, LAMBDA a : a.partido_id \in partidos_new)

AccionesDe(partido_ids) == SelectSeq(Visibles, LAMBDA a : a.partido_id \in partido_ids)

\* LAG(tipo_accion, k) OVER (ORDER BY id) on the window S, at row i
LAG(S, i, k) == IF i - k >= 1 THEN S[i - k].tipo_accion ELSE "NULL"

(***************************************************************************)
(* Percentages.  SQL: ROUND((num::decimal / NULLIF(den, 0)) * 100, 1) is   *)
(* NULL when den = 0.  pandas: (num / den * 100).round(1) on a row of a    *)
(* GROUP BY result, where den = COUNT(...) >= 1.                           *)
(***************************************************************************)
PctSQL(num, den) == IF den = 0 THEN Nulo ELSE Valor(RoundHalfAway(1000 * num, den))

PctPandas(num, den) == Valor(RoundHalfEven(1000 * num, den))

(***************************************************************************)
(* Side-out and counter-attack, overall: obtener_sideout_contraataque.     *)
(* The window keeps only recepción, atacar and colocación and is           *)
(* partitioned by partido_id.                                              *)
(***************************************************************************)
acciones_ordenadas_soc(p) ==
    SelectSeq(Visibles, LAMBDA a : a.partido_id = p
                                   /\ a.tipo_accion \in {"recepción", "atacar", "colocación"})

\* The CASE of ataques_clasificados at row i of the window S
fase_soc(S, i) ==
    CASE S[i].tipo_accion = "atacar" /\ LAG(S, i, 1) = "recepción" -> "Side-out"
      [] S[i].tipo_accion = "atacar" /\ LAG(S, i, 1) = "colocación"
                                     /\ LAG(S, i, 2) = "recepción" -> "Side-out"
      [] S[i].tipo_accion = "atacar" -> "Contraatac"
      [] OTHER -> "NULL"

\* Rows of ataques_clasificados: WHERE tipo_accion = 'atacar'
ataques_clasificados(partido_ids) ==
    {[partido_id |-> p, i |-> i,
      marca |-> acciones_ordenadas_soc(p)[i].marca,
      fase |-> fase_soc(acciones_ordenadas_soc(p), i)] :
        <<p, i>> \in {pi \in partido_ids \X (1..Len(Visibles)) :
                        /\ pi[2] \in DOMAIN acciones_ordenadas_soc(pi[1])
                        /\ acciones_ordenadas_soc(pi[1])[pi[2]].tipo_accion = "atacar"}}

\* SELECT fase, COUNT(*), eficacia, eficiencia ... WHERE fase IS NOT NULL GROUP BY fase
obtener_sideout_contraataque(partido_ids) ==
    LET filas == {r \in ataques_clasificados(partido_ids) : r.fase # "NULL"}
        grupo(f) == {r \in filas : r.fase = f}
        n(f, marcas) == Cardinality({r \in grupo(f) : r.marca \in marcas})
    IN  [f \in {r.fase : r \in filas} |->
            [total |-> Cardinality(grupo(f)),
             eficacia |-> PctSQL(n(f, {"#", "+"}), Cardinality(grupo(f))),
             eficiencia |-> PctSQL(n(f, {"#"}) - n(f, {"="}), Cardinality(grupo(f)))]]

\* The total of one phase in the result, 0 when the phase has no row
TotalFase(resultado, f) == IF f \in DOMAIN resultado THEN resultado[f].total ELSE 0

(***************************************************************************)
(* Side-out per match: obtener_sideout_por_partido.  The window is         *)
(* partitioned by partido but keeps every action type.                     *)
(***************************************************************************)
acciones_ordenadas_pp(p) == SelectSeq(Visibles, LAMBDA a : a.partido_id = p)

\* WHERE clause of ataques_sideout
es_sideout(S, i) ==
    /\ S[i].tipo_accion = "atacar"
    /\ \/ LAG(S, i, 1) = "recepción"
       \/ LAG(S, i, 1) = "colocación" /\ LAG(S, i, 2) = "recepción"

obtener_sideout_por_partido ==
    [p \in partidos_new |->
        LET S == acciones_ordenadas_pp(p)
            so == {i \in DOMAIN S : es_sideout(S, i)}
            pos == {i \in so : S[i].marca \in {"#", "+"}}
        IN  [total_sideout |-> Cardinality(so),
             eficacia_sideout |-> PctSQL(Cardinality(pos), Cardinality(so))]]

(***************************************************************************)
(* Side-out and counter-attack of one set: obtener_sideout_por_set.  One   *)
(* window ORDER BY id over every selected partido, every action type.      *)
(***************************************************************************)
acciones_ordenadas_set(partido_ids, set_numero) ==
    SelectSeq(Visibles, LAMBDA a : a.partido_id \in partido_ids /\ a.set_numero = set_numero)

\* Mutant of es_contraataque: the second lookback step is not checked
es_contraataque_sin_previa_2(S, i) ==
    /\ S[i].tipo_accion = "atacar"
    /\ \/ LAG(S, i, 1) = "defensa"
       \/ LAG(S, i, 1) = "colocación"

\* FILTER of the contraataque columns
es_contraataque(S, i) ==
    /\ S[i].tipo_accion = "atacar"
    /\ \/ LAG(S, i, 1) = "defensa"
       \/ LAG(S, i, 1) = "colocación" /\ LAG(S, i, 2) = "defensa"

obtener_sideout_por_set(partido_ids, set_numero) ==
    LET S == acciones_ordenadas_set(partido_ids, set_numero)
        so == {i \in DOMAIN S : es_sideout(S, i)}
        ca == {i \in DOMAIN S : es_contraataque(S, i)}
    IN  [total_sideout |-> Cardinality(so),
         sideout_positivo |-> Cardinality({i \in so : S[i].marca \in {"#", "+"}}),
         sideout_puntos |-> Cardinality({i \in so : S[i].marca = "#"}),
         total_contraataque |-> Cardinality(ca),
         contraataque_positivo |-> Cardinality({i \in ca : S[i].marca \in {"#", "+"}}),
         contraataque_puntos |-> Cardinality({i \in ca : S[i].marca = "#"})]

(***************************************************************************)
(* Setter distribution: obtener_distribucion_colocador.  One window        *)
(* ORDER BY id over every selected partido; attacks right after a          *)
(* colocación with a zone, grouped by the stored zona_jugador.             *)
(***************************************************************************)
\* UPPER() on the zone and rotation labels of the model
UPPER(z) ==
    CASE z = "z4" -> "Z4"
      [] z = "z2" -> "Z2"
      [] z = "p1" -> "P1"
      [] OTHER -> z

ataques_colocados(partido_ids) ==
    LET S == AccionesDe(partido_ids)
    IN  {i \in DOMAIN S : /\ S[i].tipo_accion = "atacar"
                          /\ LAG(S, i, 1) = "colocación"
                          /\ S[i].zona_jugador # "NULL"}

\* One output row per GROUP BY zona_jugador key; the column zona is UPPER(key)
obtener_distribucion_colocador(partido_ids) ==
    LET S == AccionesDe(partido_ids)
        ac == ataques_colocados(partido_ids)
        grupo(z) == {i \in ac : S[i].zona_jugador = z}
    IN  [z \in {S[i].zona_jugador : i \in ac} |->
            [zona |-> UPPER(z),
             colocaciones |-> Cardinality(grupo(z)),
             porcentaje |-> PctSQL(Cardinality(grupo(z)), Cardinality(ac)),
             eficacia |-> PctSQL(Cardinality({i \in grupo(z) : S[i].marca = "#"}),
                                 Cardinality(grupo(z))),
             puntos |-> Cardinality({i \in grupo(z) : S[i].marca = "#"})]]

\* The same query over the rows of one set: WHERE ... AND set_numero = :set_numero
ataques_colocados_set(partido_ids, set_numero) ==
    LET S == acciones_ordenadas_set(partido_ids, set_numero)
    IN  {i \in DOMAIN S : /\ S[i].tipo_accion = "atacar"
                          /\ LAG(S, i, 1) = "colocación"
                          /\ S[i].zona_jugador # "NULL"}

obtener_distribucion_colocador_por_set(partido_ids, set_numero) ==
    LET S == acciones_ordenadas_set(partido_ids, set_numero)
        ac == ataques_colocados_set(partido_ids, set_numero)
        grupo(z) == {i \in ac : S[i].zona_jugador = z}
    IN  [z \in {S[i].zona_jugador : i \in ac} |->
            [zona |-> UPPER(z),
             colocaciones |-> Cardinality(grupo(z)),
             porcentaje |-> PctSQL(Cardinality(grupo(z)), Cardinality(ac)),
             eficacia |-> PctSQL(Cardinality({i \in grupo(z) : S[i].marca = "#"}),
                                 Cardinality(grupo(z))),
             puntos |-> Cardinality({i \in grupo(z) : S[i].marca = "#"})]]

(***************************************************************************)
(* Attack per rotation: obtener_ataque_por_rotacion, and zone per          *)
(* rotation: obtener_distribucion_por_rotacion (the definition that is in  *)
(* force, the second of the two in app.py).  Both GROUP BY the stored      *)
(* labels, so only labels with at least one attack have a row.             *)
(***************************************************************************)
\* WHERE tipo_accion = 'atacar' AND zona_colocador IS NOT NULL
ataques_con_rotacion(partido_ids) ==
    LET S == AccionesDe(partido_ids)
    IN  {i \in DOMAIN S : S[i].tipo_accion = "atacar" /\ S[i].zona_colocador # "NULL"}

\* One output row per GROUP BY zona_colocador key; the column rotacion is UPPER(key)
obtener_ataque_por_rotacion(partido_ids) ==
    LET S == AccionesDe(partido_ids)
        ar == ataques_con_rotacion(partido_ids)
        grupo(r) == {i \in ar : S[i].zona_colocador = r}
    IN  [r \in {S[i].zona_colocador : i \in ar} |->
            [rotacion |-> UPPER(r),
             total |-> Cardinality(grupo(r)),
             eficacia |-> PctSQL(Cardinality({i \in grupo(r) : S[i].marca \in {"#", "+"}}),
                                 Cardinality(grupo(r))),
             eficiencia |-> PctSQL(Cardinality({i \in grupo(r) : S[i].marca = "#"})
                                      - Cardinality({i \in grupo(r) : S[i].marca = "="}),
                                   Cardinality(grupo(r)))]]

\* WHERE tipo_accion = 'atacar' AND zona_jugador IS NOT NULL AND zona_colocador IS NOT NULL
ataques_con_zona_y_rotacion(partido_ids) ==
    LET S == AccionesDe(partido_ids)
    IN  {i \in DOMAIN S : /\ S[i].tipo_accion = "atacar"
                          /\ S[i].zona_jugador # "NULL"
                          /\ S[i].zona_colocador # "NULL"}

\* One output row per GROUP BY zona_colocador, zona_jugador key
obtener_distribucion_por_rotacion(partido_ids) ==
    LET S == AccionesDe(partido_ids)
        az == ataques_con_zona_y_rotacion(partido_ids)
        grupo(k) == {i \in az : S[i].zona_colocador = k[1] /\ S[i].zona_jugador = k[2]}
    IN  [k \in {<<S[i].zona_colocador, S[i].zona_jugador>> : i \in az} |->
            [rotacion |-> k[1],
             zona |-> UPPER(k[2]),
             colocaciones |-> Cardinality(grupo(k)),
             eficacia |-> PctSQL(Cardinality({i \in grupo(k) : S[i].marca \in {"#", "+"}}),
                                 Cardinality(grupo(k))),
             puntos |-> Cardinality({i \in grupo(k) : S[i].marca = "#"})]]

(***************************************************************************)
(* Summary per action type: obtener_resumen_acciones (one partido) and     *)
(* obtener_resumen_acciones_multi (several).  GROUP BY tipo_accion, so     *)
(* only the action types with at least one row are reported; eficacia and  *)
(* eficiencia are computed in pandas from the counts.                      *)
(***************************************************************************)
\* COUNT(*) FILTER (WHERE marca IN marcas) of the group tipo_accion = t
ContarMarca(S, t, marcas) ==
    Cardinality({i \in DOMAIN S : S[i].tipo_accion = t /\ S[i].marca \in marcas})

\* COUNT(*) of the group tipo_accion = t
ContarTipo(S, t) == Cardinality({i \in DOMAIN S : S[i].tipo_accion = t})

\* Mutant of resumen_fila: positivos counts '#' and '+' together
resumen_fila_positivos_con_puntos(S, t) ==
    [total |-> ContarTipo(S, t),
     puntos |-> ContarMarca(S, t, {"#"}),
     positivos |-> ContarMarca(S, t, {"#", "+"}),
     neutros |-> ContarMarca(S, t, {"!"}),
     negativos |-> ContarMarca(S, t, {"-"}),
     errores_forzados |-> ContarMarca(S, t, {"/"}),
     errores |-> ContarMarca(S, t, {"="}),
     eficacia |-> PctPandas(ContarMarca(S, t, {"#"}) + ContarMarca(S, t, {"#", "+"}),
                            ContarTipo(S, t)),
     eficiencia |-> PctPandas(ContarMarca(S, t, {"#"}) - ContarMarca(S, t, {"="}),
                              ContarTipo(S, t))]

resumen_fila(S, t) ==
    [total |-> ContarTipo(S, t),
     puntos |-> ContarMarca(S, t, {"#"}),
     positivos |-> ContarMarca(S, t, {"+"}),
     neutros |-> ContarMarca(S, t, {"!"}),
     negativos |-> ContarMarca(S, t, {"-"}),
     errores_forzados |-> ContarMarca(S, t, {"/"}),
     errores |-> ContarMarca(S, t, {"="}),
     eficacia |-> PctPandas(ContarMarca(S, t, {"#"}) + ContarMarca(S, t, {"+"}),
                            ContarTipo(S, t)),
     eficiencia |-> PctPandas(ContarMarca(S, t, {"#"}) - ContarMarca(S, t, {"="}),
                              ContarTipo(S, t))]

obtener_resumen_acciones(partido_id) ==
    LET S == AccionesDe({partido_id})
    IN  [t \in {S[i].tipo_accion : i \in DOMAIN S} |-> resumen_fila(S, t)]

obtener_resumen_acciones_multi(partido_ids) ==
    LET S == AccionesDe(partido_ids)
    IN  [t \in {S[i].tipo_accion : i \in DOMAIN S} |-> resumen_fila(S, t)]

\* Per-player summary: obtener_estadisticas_jugador, the query of the
\* summary with AND jugador_id = :jid and the same pandas percentages
obtener_estadisticas_jugador(partido_ids, jugador_id) ==
    LET S == SelectSeq(AccionesDe(partido_ids), LAMBDA a : a.jugador_id = jugador_id)
    IN  [t \in {S[i].tipo_accion : i \in DOMAIN S} |-> resumen_fila(S, t)]

(***************************************************************************)
(* Team average: obtener_media_equipo.  Four action types, percentages     *)
(* computed and rounded in SQL.                                            *)
(***************************************************************************)
obtener_media_equipo(partido_ids) ==
    LET S == AccionesDe(partido_ids)
        tipos == {S[i].tipo_accion : i \in DOMAIN S}
                    \cap {"atacar", "recepción", "saque", "bloqueo"}
    IN  [t \in tipos |->
            [eficacia_media |-> PctSQL(ContarMarca(S, t, {"#", "+"}), ContarTipo(S, t)),
             eficiencia_media |-> PctSQL(ContarMarca(S, t, {"#"}) - ContarMarca(S, t, {"="}),
                                         ContarTipo(S, t))]]

(***************************************************************************)
(* Critical moments: obtener_momentos_criticos.  Only rows with both       *)
(* scores take part; calcular_stats is applied to each bucket.  Python     *)
(* round(x, 1) rounds half-to-even.                                        *)
(***************************************************************************)
Mayor(a, b) == IF a >= b THEN a ELSE b

\* The rows of df: puntos_local IS NOT NULL AND puntos_visitante IS NOT NULL
df_momentos(partido_ids) ==
    SelectSeq(AccionesDe(partido_ids),
              LAMBDA a : a.puntos_local # Nulo /\ a.puntos_visitante # Nulo)

diferencia(a) == Abs(a.puntos_local[1] - a.puntos_visitante[1])

punto_mayor(a) == Mayor(a.puntos_local[1], a.puntos_visitante[1])

\* round(len(positive rows) / len(rows) * 100, 1) if len(rows) > 0 else 0
eficacia_stats(S, t) ==
    IF ContarTipo(S, t) > 0
    THEN Valor(RoundHalfEven(1000 * ContarMarca(S, t, {"#", "+"}), ContarTipo(S, t)))
    ELSE Valor(0)

calcular_stats(S) ==
    [eficacia_ataque |-> eficacia_stats(S, "atacar"),
     puntos_ataque |-> ContarMarca(S, "atacar", {"#"}),
     total_ataques |-> ContarTipo(S, "atacar"),
     eficacia_recepcion |-> eficacia_stats(S, "recepción"),
     total_recepciones |-> ContarTipo(S, "recepción"),
     eficacia_saque |-> eficacia_stats(S, "saque"),
     puntos_saque |-> ContarMarca(S, "saque", {"#"}),
     total_saques |-> ContarTipo(S, "saque"),
     eficacia_bloqueo |-> eficacia_stats(S, "bloqueo"),
     puntos_bloqueo |-> ContarMarca(S, "bloqueo", {"#"}),
     total_bloqueos |-> ContarTipo(S, "bloqueo"),
     errores |-> ContarMarca(S, "atacar", {"="}) + ContarMarca(S, "saque", {"="})
                    + ContarMarca(S, "recepción", {"="}),
     puntos_directos |-> ContarMarca(S, "atacar", {"#"}) + ContarMarca(S, "saque", {"#"})
                            + ContarMarca(S, "bloqueo", {"#"})]

df_ajustados(S) == SelectSeq(S, LAMBDA a : diferencia(a) <= 2 /\ punto_mayor(a) >= 18)

\* The final-of-set bucket with a strict comparison
df_final_estricto(S) == SelectSeq(S, LAMBDA a : punto_mayor(a) > 20)

df_final(S) == SelectSeq(S, LAMBDA a : punto_mayor(a) >= 20)

df_inicio(S) == SelectSeq(S, LAMBDA a : punto_mayor(a) <= 5)

\* resultados: a bucket is present only when it has rows; {} when df is empty
obtener_momentos_criticos(partido_ids) ==
    LET S == df_momentos(partido_ids)
        claves == IF S = <<>> THEN {}
                  ELSE {"general"}
                        \cup (IF df_ajustados(S) # <<>> THEN {"ajustados"} ELSE {})
                        \cup (IF df_final(S) # <<>> THEN {"final_set"} ELSE {})
                        \cup (IF df_inicio(S) # <<>> THEN {"inicio_set"} ELSE {})
    IN  [k \in claves |->
            CASE k = "ajustados" -> calcular_stats(df_ajustados(S))
              [] k = "final_set" -> calcular_stats(df_final(S))
              [] k = "inicio_set" -> calcular_stats(df_inicio(S))
              [] OTHER -> calcular_stats(S)]

(***************************************************************************)
(* Player card: the 'ataque' entry of obtener_ficha_jugador.  An aggregate *)
(* without GROUP BY always returns one row.                                *)
(***************************************************************************)
ficha_ataque(partido_ids, jugador_id) ==
    LET S == SelectSeq(AccionesDe(partido_ids), LAMBDA a : a.jugador_id = jugador_id)
    IN  [total |-> ContarTipo(S, "atacar"),
         puntos |-> ContarMarca(S, "atacar", {"#"}),
         eficacia |-> PctSQL(ContarMarca(S, "atacar", {"#", "+"}), ContarTipo(S, "atacar")),
         eficiencia |-> PctSQL(ContarMarca(S, "atacar", {"#"}) - ContarMarca(S, "atacar", {"="}),
                               ContarTipo(S, "atacar"))]

(***************************************************************************)
(* Errors: obtener_analisis_errores, obtener_errores_por_jugador and the   *)
(* 'errores' frame of obtener_ficha_jugador.                               *)
(***************************************************************************)
\* Rows of S with one action type and a mark in marcas
ContarFilas(S, tipos, marcas) ==
    Cardinality({i \in DOMAIN S : S[i].tipo_accion \in tipos /\ S[i].marca \in marcas})

\* WHERE partido_id IN (...) AND marca IN ('=', '/')
acciones_con_error(partido_ids) ==
    SelectSeq(AccionesDe(partido_ids), LAMBDA a : a.marca \in {"=", "/"})

\* GROUP BY tipo_accion HAVING COUNT(*) FILTER (WHERE marca IN ('=', '/')) > 0;
\* the pct columns are added by pandas
obtener_analisis_errores(partido_ids) ==
    LET S == acciones_con_error(partido_ids)
        de(t) == SelectSeq(S, LAMBDA a : a.tipo_accion = t)
    IN  [t \in {S[i].tipo_accion : i \in DOMAIN S} |->
            LET forzados == ContarFilas(de(t), {"defensa"}, {"="})
                no_forzados == ContarFilas(de(t), {t} \ {"defensa"}, {"="})
                                 + ContarFilas(de(t), {"bloqueo"}, {"/"})
                total == ContarFilas(de(t), {t}, {"=", "/"})
            IN  [errores_forzados |-> forzados,
                 errores_no_forzados |-> no_forzados,
                 total_errores |-> total,
                 pct_forzados |-> PctPandas(forzados, total),
                 pct_no_forzados |-> PctPandas(no_forzados, total)]]

\* JOIN jugadores ... GROUP BY j.nombre, j.apellido HAVING total_errores > 0
obtener_errores_por_jugador(partido_ids) ==
    LET S == SelectSeq(acciones_con_error(partido_ids), LAMBDA a : a.jugador_id \in jugadores)
        de(j) == SelectSeq(S, LAMBDA a : a.jugador_id = j)
    IN  [j \in {S[i].jugador_id : i \in DOMAIN S} |->
            [err_ataque |-> ContarFilas(de(j), {"atacar"}, {"="}),
             err_saque |-> ContarFilas(de(j), {"saque"}, {"="}),
             err_recepcion |-> ContarFilas(de(j), {"recepción"}, {"="}),
             err_bloqueo |-> ContarFilas(de(j), {"bloqueo"}, {"=", "/"}),
             total_errores |-> Len(de(j))]]

\* The groups of the 'errores' query of obtener_ficha_jugador, before LIMIT
errores_ficha_grupos(partido_ids, jugador_id) ==
    LET S == SelectSeq(AccionesDe(partido_ids),
                       LAMBDA a : /\ a.jugador_id = jugador_id
                                  /\ \/ a.tipo_accion = "bloqueo" /\ a.marca \in {"=", "/"}
                                     \/ a.tipo_accion # "bloqueo" /\ a.marca = "=")
    IN  {[tipo_accion |-> t, errores |-> ContarFilas(S, {t}, {"=", "/"})] :
            t \in {S[i].tipo_accion : i \in DOMAIN S}}

\* ORDER BY errores DESC LIMIT 3: the frames the database may return
errores_ficha(partido_ids, jugador_id) ==
    LET G == errores_ficha_grupos(partido_ids, jugador_id)
    IN  {F \in SUBSET G :
            /\ Cardinality(F) = IF Cardinality(G) < 3 THEN Cardinality(G) ELSE 3
            /\ \A f \in F : \A g \in G \ F : g.errores <= f.errores}

(***************************************************************************)
(* Rankings.  ORDER BY eficacia DESC leaves the order of players with the  *)
(* same eficacia to the database, so a ranking query is modelled by the    *)
(* set of frames it may return.  A player's name is the apellido, which is *)
(* also the key obtener_o_crear_jugador looks the player up by.            *)
(***************************************************************************)
\* Rows of acciones_new JOIN jugadores of one action type
acciones_de_tipo(partido_ids, tipo) ==
    SelectSeq(AccionesDe(partido_ids),
              LAMBDA a : a.tipo_accion = tipo /\ a.jugador_id \in jugadores)

\* GROUP BY j.id without the HAVING clause
stats_sin_minimo(partido_ids, tipo) ==
    LET S == acciones_de_tipo(partido_ids, tipo)
        de(j) == SelectSeq(S, LAMBDA a : a.jugador_id = j)
    IN  {[jugador_id |-> j, jugador |-> j, tipo_accion |-> tipo,
          total |-> Len(de(j)),
          eficacia |-> PctSQL(ContarMarca(de(j), tipo, {"#", "+"}), Len(de(j)))] :
            j \in {a \in jugadores : Len(de(a)) >= 1}}

\* GROUP BY j.id ... HAVING COUNT(*) >= 5
stats(partido_ids, tipo) ==
    LET S == acciones_de_tipo(partido_ids, tipo)
        de(j) == SelectSeq(S, LAMBDA a : a.jugador_id = j)
    IN  {[jugador_id |-> j, jugador |-> j, tipo_accion |-> tipo,
          total |-> Len(de(j)),
          eficacia |-> PctSQL(ContarMarca(de(j), tipo, {"#", "+"}), Len(de(j)))] :
            j \in {a \in jugadores : Len(de(a)) >= 5}}

\* The orders ORDER BY eficacia DESC may produce
ordenes_eficacia_desc(E) ==
    {f \in [1..Cardinality(E) -> E] :
        /\ \A i, k \in DOMAIN f : i # k => f[i] # f[k]
        /\ \A i, k \in DOMAIN f : i < k => f[i].eficacia[1] >= f[k].eficacia[1]}

\* df['ranking'] = range(1, len(df) + 1)
obtener_ranking_equipo(partido_ids, tipo_accion) ==
    {[i \in DOMAIN f |->
        [jugador_id |-> f[i].jugador_id, jugador |-> f[i].jugador,
         total |-> f[i].total, eficacia |-> f[i].eficacia, ranking |-> i]] :
            f \in ordenes_eficacia_desc(stats(partido_ids, tipo_accion))}

\* The action types of the stats CTE, in the order of ORDER BY tipo_accion
tipos_rankings == <<"atacar", "bloqueo", "recepción", "saque">>

\* ROW_NUMBER() OVER (PARTITION BY tipo_accion ORDER BY eficacia DESC)
rankings_de_tipo(tipo) ==
    {{[jugador_id |-> f[i].jugador_id, jugador |-> f[i].jugador,
       tipo_accion |-> tipo, eficacia |-> f[i].eficacia, ranking |-> i] : i \in DOMAIN f} :
            f \in ordenes_eficacia_desc(stats(partidos_new, tipo))}

\* SELECT * FROM rankings ORDER BY jugador, tipo_accion (one team in the store)
ordenar_jugador_tipo(E) ==
    CHOOSE f \in [1..Cardinality(E) -> E] :
        /\ \A i, k \in DOMAIN f : i # k => f[i] # f[k]
        /\ \A i, k \in DOMAIN f : i < k =>
              \/ f[i].jugador < f[k].jugador
              \/ /\ f[i].jugador = f[k].jugador
                 /\ \E a, b \in DOMAIN tipos_rankings :
                       /\ a < b
                       /\ tipos_rankings[a] = f[i].tipo_accion
                       /\ tipos_rankings[b] = f[k].tipo_accion

obtener_rankings_todas_acciones ==
    {ordenar_jugador_tipo(a \cup b \cup r \cup q) :
        a \in rankings_de_tipo("atacar"), b \in rankings_de_tipo("bloqueo"),
        r \in rankings_de_tipo("recepción"), q \in rankings_de_tipo("saque")}

(***************************************************************************)
(* Badges: obtener_badges_equipo.  Each rule is one query per partido.     *)
(* The queries group by the player's name, which is the apellido the       *)
(* import identifies the player by.  ORDER BY ... LIMIT 1 leaves the       *)
(* choice among groups with the same top value to the database, and the    *)
(* perfect-match query has no ORDER BY, so a query is modelled by the set  *)
(* of results it may return.  The result of fetchone() is Nulo (None) or   *)
(* Valor(row).                                                             *)
(***************************************************************************)
\* FROM acciones_new a JOIN jugadores j ... WHERE a.partido_id = :pid, for one player
acciones_jugador(pid, j) ==
    SelectSeq(AccionesDe({pid}), LAMBDA a : a.jugador_id = j /\ a.jugador_id \in jugadores)

\* The groups of the best-attacker query without the HAVING clause
grupos_atacante_sin_minimo(pid) ==
    {[jugador |-> j,
      total |-> ContarTipo(acciones_jugador(pid, j), "atacar"),
      eficacia |-> PctSQL(ContarMarca(acciones_jugador(pid, j), "atacar", {"#", "+"}),
                          ContarTipo(acciones_jugador(pid, j), "atacar"))] :
        j \in {a \in jugadores : ContarTipo(acciones_jugador(pid, a), "atacar") >= 1}}

\* The groups of the best-attacker query: HAVING COUNT(*) >= 5
grupos_atacante(pid) ==
    {[jugador |-> j,
      total |-> ContarTipo(acciones_jugador(pid, j), "atacar"),
      eficacia |-> PctSQL(ContarMarca(acciones_jugador(pid, j), "atacar", {"#", "+"}),
                          ContarTipo(acciones_jugador(pid, j), "atacar"))] :
        j \in {a \in jugadores : ContarTipo(acciones_jugador(pid, a), "atacar") >= 5}}

\* ORDER BY eficacia DESC LIMIT 1 ... fetchone()
mejor_atacante(pid) ==
    IF grupos_atacante(pid) = {} THEN {Nulo}
    ELSE {Valor(g) : g \in {h \in grupos_atacante(pid) :
                              \A k \in grupos_atacante(pid) : k.eficacia[1] <= h.eficacia[1]}}

\* if mejor_atacante and mejor_atacante[2] and mejor_atacante[2] >= 50
badge_atacante(pid, fila) ==
    IF fila # Nulo /\ fila[1].eficacia # Nulo /\ fila[1].eficacia[1] # 0 /\ fila[1].eficacia[1] >= 500
    THEN <<[titulo |-> "Millor Atacant", jugador |-> fila[1].jugador,
            valor |-> fila[1].eficacia[1], partido_id |-> pid]>>
    ELSE <<>>

\* The groups of the aces query: saque marked '#', HAVING COUNT(*) >= 3
grupos_aces(pid) ==
    {[jugador |-> j, aces |-> ContarMarca(acciones_jugador(pid, j), "saque", {"#"})] :
        j \in {a \in jugadores : ContarMarca(acciones_jugador(pid, a), "saque", {"#"}) >= 3}}

\* ORDER BY aces DESC LIMIT 1 ... fetchone()
aces_record(pid) ==
    IF grupos_aces(pid) = {} THEN {Nulo}
    ELSE {Valor(g) : g \in {h \in grupos_aces(pid) : \A k \in grupos_aces(pid) : k.aces <= h.aces}}

badge_aces(pid, fila) ==
    IF fila # Nulo
    THEN <<[titulo |-> "Màquina de Aces", jugador |-> fila[1].jugador,
            valor |-> fila[1].aces, partido_id |-> pid]>>
    ELSE <<>>

\* COUNT(*) of atacar and saque rows marked '#', blocks left out
puntos_directos_sin_bloqueo(pid, j) ==
    ContarMarca(acciones_jugador(pid, j), "atacar", {"#"})
        + ContarMarca(acciones_jugador(pid, j), "saque", {"#"})

\* COUNT(*) of atacar, saque and bloqueo rows marked '#'
puntos_directos_jugador(pid, j) ==
    ContarMarca(acciones_jugador(pid, j), "atacar", {"#"})
        + ContarMarca(acciones_jugador(pid, j), "saque", {"#"})
        + ContarMarca(acciones_jugador(pid, j), "bloqueo", {"#"})

\* The groups of the direct-points query: HAVING COUNT(*) >= 10
grupos_puntos(pid) ==
    {[jugador |-> j, puntos |-> puntos_directos_jugador(pid, j)] :
        j \in {a \in jugadores : puntos_directos_jugador(pid, a) >= 10}}

\* ORDER BY puntos DESC LIMIT 1 ... fetchone()
puntos_record(pid) ==
    IF grupos_puntos(pid) = {} THEN {Nulo}
    ELSE {Valor(g) : g \in {h \in grupos_puntos(pid) : \A k \in grupos_puntos(pid) : k.puntos <= h.puntos}}

badge_puntos(pid, fila) ==
    IF fila # Nulo
    THEN <<[titulo |-> "10+ Punts", jugador |-> fila[1].jugador,
            valor |-> fila[1].puntos, partido_id |-> pid]>>
    ELSE <<>>

\* The groups of the perfect-match query without the condition on '='
grupos_perfecto_con_errores(pid) ==
    {[jugador |-> j, total |-> Len(acciones_jugador(pid, j)), errores |-> 0] :
        j \in {a \in jugadores : Len(acciones_jugador(pid, a)) >= 10}}

\* The groups of the perfect-match query:
\* HAVING COUNT(*) >= 10 AND COUNT(*) FILTER (WHERE a.marca = '=') = 0
grupos_perfecto(pid) ==
    {[jugador |-> j, total |-> Len(acciones_jugador(pid, j)), errores |-> 0] :
        j \in {a \in jugadores :
                /\ Len(acciones_jugador(pid, a)) >= 10
                /\ Len(SelectSeq(acciones_jugador(pid, a), LAMBDA x : x.marca = "=")) = 0}}

\* fetchall() of a query without ORDER BY: the groups in any order
partido_perfecto(pid) ==
    {f \in [1..Cardinality(grupos_perfecto(pid)) -> grupos_perfecto(pid)] :
        \A i, k \in DOMAIN f : i # k => f[i] # f[k]}

\* for jugador in partido_perfecto: badges.append(...)
badges_perfecto(pid, filas) ==
    [i \in DOMAIN filas |->
        [titulo |-> "Partit Perfecte", jugador |-> filas[i].jugador,
         valor |-> filas[i].total, partido_id |-> pid]]

\* The groups of the wall query: bloqueo marked '#', HAVING COUNT(*) >= 3
grupos_bloc(pid) ==
    {[jugador |-> j, blocs |-> ContarMarca(acciones_jugador(pid, j), "bloqueo", {"#"})] :
        j \in {a \in jugadores : ContarMarca(acciones_jugador(pid, a), "bloqueo", {"#"}) >= 3}}

\* ORDER BY blocs DESC LIMIT 1 ... fetchone()
mur_bloc(pid) ==
    IF grupos_bloc(pid) = {} THEN {Nulo}
    ELSE {Valor(g) : g \in {h \in grupos_bloc(pid) : \A k \in grupos_bloc(pid) : k.blocs <= h.blocs}}

badge_bloc(pid, fila) ==
    IF fila # Nulo
    THEN <<[titulo |-> "El Muro", jugador |-> fila[1].jugador,
            valor |-> fila[1].blocs, partido_id |-> pid]>>
    ELSE <<>>

\* The groups of the reception query: HAVING COUNT(*) >= 10
grupos_receptor(pid) ==
    {[jugador |-> j,
      total |-> ContarTipo(acciones_jugador(pid, j), "recepción"),
      eficacia |-> PctSQL(ContarMarca(acciones_jugador(pid, j), "recepción", {"#", "+"}),
                          ContarTipo(acciones_jugador(pid, j), "recepción"))] :
        j \in {a \in jugadores : ContarTipo(acciones_jugador(pid, a), "recepción") >= 10}}

\* ORDER BY eficacia DESC LIMIT 1 ... fetchone()
mejor_receptor(pid) ==
    IF grupos_receptor(pid) = {} THEN {Nulo}
    ELSE {Valor(g) : g \in {h \in grupos_receptor(pid) :
                              \A k \in grupos_receptor(pid) : k.eficacia[1] <= h.eficacia[1]}}

\* if mejor_receptor and mejor_receptor[2] and mejor_receptor[2] >= 60
badge_receptor(pid, fila) ==
    IF fila # Nulo /\ fila[1].eficacia # Nulo /\ fila[1].eficacia[1] # 0 /\ fila[1].eficacia[1] >= 600
    THEN <<[titulo |-> "Recepció d'Or", jugador |-> fila[1].jugador,
            valor |-> fila[1].eficacia[1], partido_id |-> pid]>>
    ELSE <<>>

\* One turn of the loop over partidos: the badges appended for partido pid
badges_partido(pid) ==
    {badge_atacante(pid, a) \o badge_aces(pid, b) \o badge_puntos(pid, c)
        \o badges_perfecto(pid, d) \o badge_bloc(pid, e) \o badge_receptor(pid, f) :
        a \in mejor_atacante(pid), b \in aces_record(pid), c \in puntos_record(pid),
        d \in partido_perfecto(pid), e \in mur_bloc(pid), f \in mejor_receptor(pid)}

\* The loop over cargar_partidos (ORDER BY p.fecha DESC, p.id DESC) and the
\* stable sort by fecha.  A partido of the model carries no fecha: the bulk
\* reimport stores fecha NULL, every badge then has the sort key date.min and
\* the sort keeps the order of the loop, id descending.
RECURSIVE badges_de_partidos(_)
badges_de_partidos(ids) ==
    IF ids = {} THEN {<<>>}
    ELSE LET pid == CHOOSE p \in ids : \A q \in ids : q <= p
         IN  {a \o b : a \in badges_partido(pid), b \in badges_de_partidos(ids \ {pid})}

obtener_badges_equipo == badges_de_partidos(partidos_new)

(***************************************************************************)
(* Import of one match file (pagina_importar_partido).                     *)
(*                                                                         *)
(* A file row carries jugador_apellido (identified here with the id that   *)
(* obtener_o_crear_jugador returns for it), set_numero, tipo_accion,       *)
(* marca, the two zones and the running score.  The handler keeps the rows *)
(* that pass the filter, validates them, and then, inside one transaction, *)
(* inserts the partido row and the action rows one by one.  The rows of    *)
(* the file are drawn as they are inserted; a file is accepted exactly     *)
(* when every kept row passes validar_datos.                               *)
(***************************************************************************)
Fila(j, s, t, m, zj, zc, pl, pv) ==
    [jugador_apellido |-> j, set_numero |-> s, tipo_accion |-> t, marca |-> m,
     zona_jugador |-> zj, zona_colocador |-> zc,
     puntos_local |-> pl, puntos_visitante |-> pv]

\* df_filtrado: rows with a player and a known action type
filtrar(fila) == fila.tipo_accion \in acciones_validas

\* validar_datos: marca.dropna().unique() must lie in marcas_validas
validar_datos(fila) == fila.marca = "NaN" \/ fila.marca \in marcas_validas

\* The INSERT of the single-file import: no score columns
AccionImportada(partido_id, fila) ==
    [partido_id |-> partido_id, jugador_id |-> fila.jugador_apellido,
     set_numero |-> fila.set_numero, tipo_accion |-> fila.tipo_accion,
     marca |-> fila.marca, zona_jugador |-> fila.zona_jugador,
     zona_colocador |-> fila.zona_colocador,
     puntos_local |-> Nulo, puntos_visitante |-> Nulo]

\* The INSERT of the bulk reimport: score columns included
AccionReimportada(partido_id, fila) ==
    [partido_id |-> partido_id, jugador_id |-> fila.jugador_apellido,
     set_numero |-> fila.set_numero, tipo_accion |-> fila.tipo_accion,
     marca |-> fila.marca, zona_jugador |-> fila.zona_jugador,
     zona_colocador |-> fila.zona_colocador,
     puntos_local |-> fila.puntos_local, puntos_visitante |-> fila.puntos_visitante]

\* st.cache_data: the memoized results, by the argument of the call; empty
\* after st.cache_data.clear()
CacheVacia == [k \in {} |-> Nulo]

\* A reader session that has not called the engine yet
LectorInicial == [pc |-> "inicio", partido_ids |-> {}, resultado |-> Nulo, esperado |-> Nulo]

\* st.session_state of a browser session before any login: sidebar_contexto
\* sets intentos_login to 0 and bloqueado_hasta to None; usuario 0 and
\* session_token 0 stand for absent keys.  token and borradas belong to the
\* open transaction of crear_sesion.
SessionStateVacio ==
    [pc |-> "inicio", logged_in |-> FALSE, usuario |-> 0, intentos_login |-> 0,
     bloqueado_hasta |-> Nulo, session_token |-> 0, token |-> 0, borradas |-> {}]

\* The single import outside a run: filas holds the rows of df_filtrado the
\* loop has gone through inside the open transaction
SinImportar == [filas |-> <<>>]

\* The player rows a transaction that went through filas has inserted, beyond
\* the committed ones
jugadores_de(filas) == {filas[i].jugador_apellido : i \in DOMAIN filas}

\* The locals of the bulk reimport handler outside a run
SinReimportar == [ids_eliminar |-> {}, partidos_importados |-> 0, errores |-> <<>>]

Init ==
    /\ partidos_new = {}
    /\ acciones_new = <<>>
    /\ jugadores = {}
    /\ seq_partido = 0
    /\ sesion = [s \in Sesiones |-> [pc |-> "inicio", partido_id |-> 0]]
    /\ cache_data = CacheVacia
    /\ lector = [l \in Lectores |-> LectorInicial]
    /\ nombre_archivo = <<>>
    /\ reimport = [s \in Sesiones |-> SinReimportar]
    /\ importacion = [s \in Sesiones |-> SinImportar]
    /\ sesiones = {}
    /\ session_state = [s \in Sesiones |-> SessionStateVacio]
    /\ seq_token = 0
    /\ retirados = {}
    /\ ahora = 0
    /\ llamadas = [s \in Sesiones |-> FALSE]

\* SELECT COUNT(*) FROM partidos_new WHERE nombre_archivo = :nombre, on a
\* connection of its own: it sees the committed rows
partido_ya_existe(nombre) == \E p \in partidos_new : nombre_archivo[p] = nombre

\* The script run of "Importar partit" for the uploaded file nombre: the
\* partido_ya_existe check, then engine.begin() and INSERT INTO partidos_new
\* RETURNING id.  The inserted row is not visible to other connections
\* before the commit.
ImportarInsertarPartidoDe(s, nombre) ==
    /\ sesion[s].pc = "inicio"
    /\ ~partido_ya_existe(nombre)
    /\ seq_partido < MaxPartidos
    /\ seq_partido' = seq_partido + 1
    /\ nombre_archivo' = [p \in DOMAIN nombre_archivo \cup {seq_partido + 1} |->
                            IF p = seq_partido + 1 THEN nombre ELSE nombre_archivo[p]]
    /\ sesion' = [sesion EXCEPT ![s] = [pc |-> "importando", partido_id |-> seq_partido + 1]]
    /\ UNCHANGED <<partidos_new, acciones_new, jugadores, cache_data, lector, reimport, importacion, vars_acceso>>

\* The import of a file whose name no earlier upload had
ImportarInsertarPartido(s) == ImportarInsertarPartidoDe(s, seq_partido + 1)

\* The set_numero of a row whose cell is empty (pandas NaN); the sets of a
\* match are numbered from 1
SetVacio == 0

\* int(row['set_numero']) raises ValueError on an empty cell
fila_convertible(fila) == fila.set_numero # SetVacio

\* One turn of the loop over df_filtrado: obtener_o_crear_jugador (the SELECT
\* sees the committed players and those this transaction inserted), INSERT
\* INTO acciones_new
ImportarInsertarAccion(s, fila) ==
    /\ sesion[s].pc = "importando"
    /\ Len(acciones_new) < MaxAcciones
    /\ filtrar(fila)
    /\ validar_datos(fila)
    /\ fila_convertible(fila)
    /\ importacion' = [importacion EXCEPT ![s].filas = Append(@, fila)]
    /\ acciones_new' = Append(acciones_new, AccionImportada(sesion[s].partido_id, fila))
    /\ UNCHANGED <<partidos_new, jugadores, seq_partido, sesion, cache_data, lector, nombre_archivo, reimport, vars_acceso>>

\* Mutant of ImportarFalla: the players were inserted outside the transaction
ImportarFalla_jugadores_fuera(s, fila) ==
    /\ sesion[s].pc = "importando"
    /\ filtrar(fila)
    /\ validar_datos(fila)
    /\ ~fila_convertible(fila)
    /\ acciones_new' = SelectSeq(acciones_new, LAMBDA a : a.partido_id # sesion[s].partido_id)
    /\ nombre_archivo' = [p \in DOMAIN nombre_archivo \ {sesion[s].partido_id} |-> nombre_archivo[p]]
    /\ jugadores' = jugadores \cup jugadores_de(importacion[s].filas)
    /\ importacion' = [importacion EXCEPT ![s] = SinImportar]
    /\ sesion' = [sesion EXCEPT ![s] = [pc |-> "inicio", partido_id |-> 0]]
    /\ UNCHANGED <<partidos_new, seq_partido, cache_data, lector, reimport, vars_acceso>>

\* A turn of the loop that raises (int(row['set_numero']) on an empty cell):
\* the with-block rolls the transaction back, so the partido row, the action
\* rows and the player rows it inserted are gone; the except branch shows the
\* error
ImportarFalla(s, fila) ==
    /\ sesion[s].pc = "importando"
    /\ filtrar(fila)
    /\ validar_datos(fila)
    /\ ~fila_convertible(fila)
    /\ acciones_new' = SelectSeq(acciones_new, LAMBDA a : a.partido_id # sesion[s].partido_id)
    /\ nombre_archivo' = [p \in DOMAIN nombre_archivo \ {sesion[s].partido_id} |-> nombre_archivo[p]]
    /\ importacion' = [importacion EXCEPT ![s] = SinImportar]
    /\ sesion' = [sesion EXCEPT ![s] = [pc |-> "inicio", partido_id |-> 0]]
    /\ UNCHANGED <<partidos_new, jugadores, seq_partido, cache_data, lector, reimport, vars_acceso>>

\* End of the with-block: the transaction commits
ImportarConfirmar(s) ==
    /\ sesion[s].pc = "importando"
    /\ partidos_new' = partidos_new \cup {sesion[s].partido_id}
    /\ jugadores' = jugadores \cup jugadores_de(importacion[s].filas)
    /\ importacion' = [importacion EXCEPT ![s] = SinImportar]
    /\ sesion' = [sesion EXCEPT ![s] = [pc |-> "confirmado", partido_id |-> 0]]
    /\ UNCHANGED <<acciones_new, seq_partido, cache_data, lector, nombre_archivo, reimport, vars_acceso>>

\* After the with-block: st.cache_data.clear()
ImportarLimpiarCache(s) ==
    /\ sesion[s].pc = "confirmado"
    /\ cache_data' = CacheVacia
    /\ sesion' = [sesion EXCEPT ![s] = [pc |-> "inicio", partido_id |-> 0]]
    /\ UNCHANGED <<partidos_new, acciones_new, jugadores, seq_partido, lector, nombre_archivo, reimport, importacion, vars_acceso>>

(***************************************************************************)
(* Bulk reimport (pagina_admin, tab "Reimportar").  The handler first      *)
(* deletes, in its own transaction, every partido of the team and season   *)
(* with its actions, and then imports each uploaded file in a transaction  *)
(* of its own: partido row, players, and one batch INSERT of all kept      *)
(* rows.  The rows are filtered like in the single import but are not      *)
(* validated.                                                              *)
(***************************************************************************)
ReimportarEliminar(s) ==
    /\ sesion[s].pc = "inicio"
    /\ acciones_new' = SelectSeq(acciones_new, LAMBDA a : a.partido_id \notin partidos_new)
    /\ partidos_new' = {}
    /\ nombre_archivo' = [p \in DOMAIN nombre_archivo \ partidos_new |-> nombre_archivo[p]]
    /\ sesion' = [sesion EXCEPT ![s] = [pc |-> "reimportando", partido_id |-> 0]]
    /\ reimport' = [reimport EXCEPT ![s] =
                      [ids_eliminar |-> partidos_new, partidos_importados |-> 0, errores |-> <<>>]]
    /\ UNCHANGED <<jugadores, seq_partido, cache_data, lector, importacion, vars_acceso>>

FilasReimportadas(partido_id, archivo) ==
    LET kept == SelectSeq(archivo, filtrar)
    IN  [i \in DOMAIN kept |-> AccionReimportada(partido_id, kept[i])]

\* Every kept row of the file can be converted for the batch INSERT
archivo_convertible(archivo) ==
    \A i \in DOMAIN archivo : filtrar(archivo[i]) => fila_convertible(archivo[i])

\* One turn of the loop over uploaded_files, for the file named nombre
ReimportarArchivoDe(s, nombre, archivo) ==
    /\ sesion[s].pc = "reimportando"
    /\ archivo_convertible(archivo)
    /\ seq_partido < MaxPartidos
    /\ seq_partido' = seq_partido + 1
    /\ partidos_new' = partidos_new \cup {seq_partido + 1}
    /\ nombre_archivo' = [p \in DOMAIN nombre_archivo \cup {seq_partido + 1} |->
                            IF p = seq_partido + 1 THEN nombre ELSE nombre_archivo[p]]
    /\ jugadores' = jugadores \cup {archivo[i].jugador_apellido : i \in {k \in DOMAIN archivo : filtrar(archivo[k])}}
    /\ acciones_new' = acciones_new \o FilasReimportadas(seq_partido + 1, archivo)
    /\ reimport' = [reimport EXCEPT ![s].partidos_importados = @ + 1]
    /\ UNCHANGED <<sesion, cache_data, lector, importacion, vars_acceso>>

\* One turn of the loop over uploaded_files for a file that raises while the
\* batch is prepared: the transaction of the file is rolled back (the id the
\* INSERT took from the sequence is not given back), the error is noted and
\* the loop goes on
ReimportarArchivoFalla(s, nombre, archivo) ==
    /\ sesion[s].pc = "reimportando"
    /\ ~archivo_convertible(archivo)
    /\ seq_partido < MaxPartidos
    /\ seq_partido' = seq_partido + 1
    /\ reimport' = [reimport EXCEPT ![s].errores = Append(@, nombre)]
    /\ UNCHANGED <<partidos_new, acciones_new, jugadores, sesion, cache_data, lector, nombre_archivo, importacion, vars_acceso>>

\* The reimport of a file whose name no earlier upload had
ReimportarArchivo(s, archivo) == ReimportarArchivoDe(s, seq_partido + 1, archivo)

\* End of the loop over uploaded_files: st.cache_data.clear()
ReimportarFin(s) ==
    /\ sesion[s].pc = "reimportando"
    /\ cache_data' = CacheVacia
    /\ sesion' = [sesion EXCEPT ![s] = [pc |-> "inicio", partido_id |-> 0]]
    /\ reimport' = [reimport EXCEPT ![s] = SinReimportar]
    /\ UNCHANGED <<partidos_new, acciones_new, jugadores, seq_partido, lector, nombre_archivo, importacion, vars_acceso>>

(***************************************************************************)
(* Readers.  obtener_resumen_acciones_multi is wrapped by                  *)
(* @st.cache_data(ttl=60): a call with a memoized argument returns the     *)
(* memoized frame without running the query; otherwise the query runs and  *)
(* its frame is stored afterwards.  The field esperado records the frame   *)
(* the query gives on the store at the moment of the call.                 *)
(***************************************************************************)
LlamarResumen(l, partido_ids) ==
    /\ lector[l].pc \in {"inicio", "devuelto"}
    /\ lector' = [lector EXCEPT ![l] =
          IF partido_ids \in DOMAIN cache_data
          THEN [pc |-> "devuelto", partido_ids |-> partido_ids,
                resultado |-> Valor(cache_data[partido_ids]),
                esperado |-> Valor(obtener_resumen_acciones_multi(partido_ids))]
          ELSE [pc |-> "calculado", partido_ids |-> partido_ids,
                resultado |-> Valor(obtener_resumen_acciones_multi(partido_ids)),
                esperado |-> Valor(obtener_resumen_acciones_multi(partido_ids))]]
    /\ UNCHANGED <<partidos_new, acciones_new, jugadores, seq_partido, sesion, cache_data, nombre_archivo, reimport, importacion, vars_acceso>>

\* The wrapper stores the computed frame and returns it
GuardarResumen(l) ==
    /\ lector[l].pc = "calculado"
    /\ cache_data' = [k \in DOMAIN cache_data \cup {lector[l].partido_ids} |->
                        IF k = lector[l].partido_ids THEN lector[l].resultado[1] ELSE cache_data[k]]
    /\ lector' = [lector EXCEPT ![l].pc = "devuelto"]
    /\ UNCHANGED <<partidos_new, acciones_new, jugadores, seq_partido, sesion, nombre_archivo, reimport, importacion, vars_acceso>>

\* ttl=60: a memoized frame is dropped sixty seconds after it was stored
CacheExpira(k) ==
    /\ k \in DOMAIN cache_data
    /\ cache_data' = [x \in DOMAIN cache_data \ {k} |-> cache_data[x]]
    /\ UNCHANGED <<partidos_new, acciones_new, jugadores, seq_partido, sesion, lector, nombre_archivo, reimport, importacion, vars_acceso>>

(***************************************************************************)
(* Login and persistent sessions.  A row of the sesiones table is          *)
(* [usuario_id, token, expirada]; a token is the number of its             *)
(* secrets.token_hex draw, so no two draws give the same token.  Every     *)
(* user is active.  crear_sesion runs DELETE and INSERT in one transaction *)
(* at READ COMMITTED: the DELETE removes the rows of the user that are     *)
(* committed when it runs and waits for a row another open transaction is  *)
(* deleting.                                                               *)
(***************************************************************************)
\* Failed attempts that lock the sidebar form
MaxIntentos == 5

\* Seconds the sidebar form stays locked
TiempoBloqueo == 60

\* Users with an account
Usuarios == {1, 2}

\* verificar_login: the user the credentials belong to, or None
Credenciales == {Nulo} \cup {Valor(u) : u \in Usuarios}

\* Rows another open crear_sesion transaction has deleted and not committed
filas_bloqueadas(s) ==
    UNION {session_state[o].borradas : o \in {x \in Sesiones : x # s /\ session_state[x].pc = "creando"}}

\* verificar_sesion: the user of an unexpired row with the token, or None
verificar_sesion(token) ==
    IF \E r \in sesiones : r.token = token /\ ~r.expirada
    THEN Valor((CHOOSE r \in sesiones : r.token = token /\ ~r.expirada).usuario_id)
    ELSE Nulo

\* if bloqueado_hasta and ahora < bloqueado_hasta
bloqueado(s) ==
    /\ session_state[s].bloqueado_hasta # Nulo
    /\ ahora < session_state[s].bloqueado_hasta[1]

\* A script run for a visitor whose lock has run out: the sidebar resets
\* intentos_login and bloqueado_hasta before it shows the form
SidebarDesbloquear(s) ==
    /\ session_state[s].pc = "inicio"
    /\ ~session_state[s].logged_in
    /\ session_state[s].bloqueado_hasta # Nulo
    /\ ~bloqueado(s)
    /\ session_state' = [session_state EXCEPT ![s].intentos_login = 0, ![s].bloqueado_hasta = Nulo]
    /\ UNCHANGED <<vars_datos, sesiones, seq_token, retirados, ahora, llamadas>>

\* "Entrar" pressed in the sidebar with credentials verificar_login rejects
SidebarLoginFallido(s) ==
    /\ session_state[s].pc = "inicio"
    /\ ~session_state[s].logged_in
    /\ ~bloqueado(s)
    /\ llamadas' = [llamadas EXCEPT ![s] = ~@]
    /\ LET intentos == IF session_state[s].bloqueado_hasta # Nulo
                       THEN 1 ELSE session_state[s].intentos_login + 1
       IN  session_state' = [session_state EXCEPT
                               ![s].intentos_login = intentos,
                               ![s].bloqueado_hasta = IF intentos >= MaxIntentos
                                                      THEN Valor(ahora + TiempoBloqueo) ELSE Nulo]
    /\ UNCHANGED <<vars_datos, sesiones, seq_token, retirados, ahora>>

\* "Entrar" pressed in the sidebar with the credentials of usuario: the
\* counters are reset and crear_sesion draws a token, opens its transaction
\* and runs DELETE FROM sesiones WHERE usuario_id = :usuario_id
SidebarLoginCorrecto(s, usuario) ==
    /\ session_state[s].pc = "inicio"
    /\ ~session_state[s].logged_in
    /\ ~bloqueado(s)
    /\ seq_token < MaxTokens
    /\ {r \in sesiones : r.usuario_id = usuario} \cap filas_bloqueadas(s) = {}
    /\ llamadas' = [llamadas EXCEPT ![s] = ~@]
    /\ seq_token' = seq_token + 1
    /\ session_state' = [session_state EXCEPT ![s] =
          [pc |-> "creando", logged_in |-> TRUE, usuario |-> usuario, intentos_login |-> 0,
           bloqueado_hasta |-> Nulo, session_token |-> 0, token |-> seq_token + 1,
           borradas |-> {r \in sesiones : r.usuario_id = usuario}]]
    /\ UNCHANGED <<vars_datos, sesiones, retirados, ahora>>

\* crear_sesion: INSERT INTO sesiones and commit; the token goes to
\* st.session_state.session_token.  The tokens the user had when the login
\* commits are the ones this login replaces.
CrearSesionInsertar(s) ==
    /\ session_state[s].pc = "creando"
    /\ sesiones' = (sesiones \ session_state[s].borradas)
                      \cup {[usuario_id |-> session_state[s].usuario,
                             token |-> session_state[s].token, expirada |-> FALSE]}
    /\ retirados' = retirados \cup {r.token : r \in {x \in sesiones : x.usuario_id = session_state[s].usuario}}
    /\ session_state' = [session_state EXCEPT ![s].pc = "inicio",
                                               ![s].session_token = session_state[s].token,
                                               ![s].token = 0, ![s].borradas = {}]
    /\ UNCHANGED <<vars_datos, seq_token, ahora, llamadas>>

\* "Entrar" pressed in mostrar_login_inline: verificar_login and, when it
\* accepts, the logged_in keys; no counter is read or written and no
\* session is created
InlineLogin(s, credencial) ==
    /\ session_state[s].pc = "inicio"
    /\ ~session_state[s].logged_in
    /\ llamadas' = [llamadas EXCEPT ![s] = ~@]
    /\ session_state' = IF credencial = Nulo THEN session_state
                        ELSE [session_state EXCEPT ![s].logged_in = TRUE,
                                                   ![s].usuario = credencial[1]]
    /\ UNCHANGED <<vars_datos, sesiones, seq_token, retirados, ahora>>

\* "Tancar sessió": eliminar_sesion of the session_token, when there is one,
\* and every key of st.session_state is deleted
Logout(s) ==
    /\ session_state[s].pc = "inicio"
    /\ session_state[s].logged_in
    /\ {r \in sesiones : r.token = session_state[s].session_token} \cap filas_bloqueadas(s) = {}
    /\ sesiones' = {r \in sesiones : r.token # session_state[s].session_token}
    /\ retirados' = retirados \cup ({session_state[s].session_token} \ {0})
    /\ session_state' = [session_state EXCEPT ![s] = SessionStateVacio]
    /\ UNCHANGED <<vars_datos, seq_token, ahora, llamadas>>

\* fecha_expiracion of a row is reached
ExpiraSesion(r) ==
    /\ r \in sesiones
    /\ ~r.expirada
    /\ r \notin UNION {session_state[o].borradas : o \in Sesiones}
    /\ sesiones' = (sesiones \ {r}) \cup {[r EXCEPT !.expirada = TRUE]}
    /\ UNCHANGED <<vars_datos, session_state, seq_token, retirados, ahora, llamadas>>

\* time.time() advances by d seconds
Tick(d) ==
    /\ ahora + d <= MaxTiempo
    /\ ahora' = ahora + d
    /\ UNCHANGED <<vars_datos, sesiones, session_state, seq_token, retirados, llamadas>>

(***************************************************************************)
(* Specification for the phase classification: two sessions import         *)
(* concurrently, row by row, so the ids of two matches may interleave.     *)
(***************************************************************************)
TiposFase == {"recepción", "colocación", "atacar", "defensa"}

FilasFase == {Fila(1, 1, t, "#", "Z4", "P1", Nulo, Nulo) : t \in TiposFase}

ImportarPartidoFase == \E s \in Sesiones : ImportarInsertarPartido(s)

ImportarAccionFase == \E s \in Sesiones : \E fila \in FilasFase : ImportarInsertarAccion(s, fila)

ImportarConfirmarFase == \E s \in Sesiones : ImportarConfirmar(s)

ImportarLimpiarCacheFase == \E s \in Sesiones : ImportarLimpiarCache(s)

NextFase ==
    \/ ImportarPartidoFase
    \/ ImportarAccionFase
    \/ ImportarConfirmarFase
    \/ ImportarLimpiarCacheFase

SpecFase == Init /\ [][NextFase]_vars

(***************************************************************************)
(* Specification for the metrics: single imports (validated, no scores)    *)
(* and bulk reimports (not validated, with scores) of attack and serve     *)
(* rows of one player with every kind of mark, and of rows with an action  *)
(* type outside the six valid ones.                                        *)
(***************************************************************************)
FilasMetrica ==
    {Fila(1, 1, "atacar", m, "Z4", "P1", Nulo, Nulo) : m \in marcas_validas \cup {"NaN", "x"}}
        \cup {Fila(1, 1, "saque", "#", "NULL", "P1", Nulo, Nulo),
              Fila(1, 1, "otro", "#", "NULL", "P1", Nulo, Nulo)}

ArchivosMetrica ==
    {<<Fila(1, 1, t, m, "NULL", "P1", Valor(20), Valor(19))>> : t \in {"atacar", "saque"}, m \in {"#", "=", "x"}}
        \cup {<<Fila(1, 1, "otro", "#", "NULL", "P1", Valor(20), Valor(19)),
                Fila(1, 1, "atacar", "#", "NULL", "P1", Valor(20), Valor(19))>>}

\* The metrics do not depend on concurrency: one browser session
ImportarPartidoMetrica == ImportarInsertarPartido(1)

ImportarAccionMetrica == \E fila \in FilasMetrica : ImportarInsertarAccion(1, fila)

ImportarConfirmarMetrica == ImportarConfirmar(1)

ImportarLimpiarCacheMetrica == ImportarLimpiarCache(1)

ReimportarEliminarMetrica == ReimportarEliminar(1)

ReimportarArchivoMetrica == \E archivo \in ArchivosMetrica : ReimportarArchivo(1, archivo)

ReimportarFinMetrica == ReimportarFin(1)

NextMetrica ==
    \/ ImportarPartidoMetrica
    \/ ImportarAccionMetrica
    \/ ImportarConfirmarMetrica
    \/ ImportarLimpiarCacheMetrica
    \/ ReimportarEliminarMetrica
    \/ ReimportarArchivoMetrica
    \/ ReimportarFinMetrica

SpecMetrica == Init /\ [][NextMetrica]_vars

(***************************************************************************)
(* Specification for the rankings: one session reimports files of attacks  *)
(* by up to three players, in blocks of five rows (three '#', two '=') or  *)
(* of four (two '#', two '='), and files of digs by one player.            *)
(***************************************************************************)
Bloque(j, t, forma) ==
    [i \in 1..(forma[1] + forma[2]) |->
        Fila(j, 1, t, IF i <= forma[1] THEN "#" ELSE "=", "NULL", "NULL", Nulo, Nulo)]

Ausente == <<0, 0>>

Cinco == <<3, 2>>

Cuatro == <<2, 2>>

ArchivosRanking ==
    ({Bloque(1, "atacar", f1) \o Bloque(2, "atacar", f2) \o Bloque(3, "atacar", f3) :
        f1 \in {Ausente, Cinco, Cuatro}, f2 \in {Ausente, Cinco}, f3 \in {Ausente, Cuatro}}
        \cup {Bloque(1, "defensa", f) : f \in {Cinco, Cuatro}}) \ {<<>>}

ReimportarEliminarRanking == ReimportarEliminar(1)

ReimportarArchivoRanking == \E archivo \in ArchivosRanking : ReimportarArchivo(1, archivo)

ReimportarFinRanking == ReimportarFin(1)

NextRanking ==
    \/ ReimportarEliminarRanking
    \/ ReimportarArchivoRanking
    \/ ReimportarFinRanking

SpecRanking == Init /\ [][NextRanking]_vars

(***************************************************************************)
(* Specification for the badges: one session reimports files in which two  *)
(* players reach, miss by one, or tie on the thresholds of the six rules.  *)
(***************************************************************************)
ArchivosBadges ==
    {Bloque(1, "atacar", <<3, 2>>) \o Bloque(2, "atacar", <<2, 3>>),
     Bloque(1, "atacar", <<2, 3>>),
     Bloque(2, "atacar", <<3, 3>>),
     Bloque(1, "atacar", <<4, 0>>) \o Bloque(2, "atacar", <<3, 2>>),
     Bloque(1, "recepción", <<6, 4>>),
     Bloque(1, "recepción", <<5, 5>>) \o Bloque(2, "recepción", <<9, 0>>),
     Bloque(1, "saque", <<3, 0>>) \o Bloque(2, "saque", <<3, 0>>),
     Bloque(1, "saque", <<2, 1>>),
     Bloque(1, "bloqueo", <<3, 0>>) \o Bloque(2, "bloqueo", <<2, 0>>),
     Bloque(1, "atacar", <<4, 0>>) \o Bloque(1, "saque", <<3, 0>>) \o Bloque(1, "bloqueo", <<3, 0>>),
     Bloque(1, "atacar", <<4, 0>>) \o Bloque(1, "saque", <<3, 0>>) \o Bloque(1, "bloqueo", <<2, 1>>),
     Bloque(1, "defensa", <<10, 0>>) \o Bloque(2, "defensa", <<9, 1>>),
     Bloque(1, "defensa", <<10, 0>>) \o Bloque(2, "defensa", <<10, 0>>),
     Bloque(2, "defensa", <<9, 0>>)}

ReimportarEliminarBadges == ReimportarEliminar(1)

ReimportarArchivoBadges == \E archivo \in ArchivosBadges : ReimportarArchivo(1, archivo)

ReimportarFinBadges == ReimportarFin(1)

NextBadges ==
    \/ ReimportarEliminarBadges
    \/ ReimportarArchivoBadges
    \/ ReimportarFinBadges

SpecBadges == Init /\ [][NextBadges]_vars

(***************************************************************************)
(* Specification for the critical moments: one session reimports one-row   *)
(* files whose scores lie on and next to the limits of the buckets, or are *)
(* missing.                                                                *)
(***************************************************************************)
Marcadores ==
    {<<Valor(3), Valor(2)>>, <<Valor(5), Valor(5)>>, <<Valor(5), Valor(6)>>,
     <<Valor(17), Valor(16)>>, <<Valor(18), Valor(16)>>, <<Valor(18), Valor(15)>>,
     <<Valor(19), Valor(20)>>, <<Valor(20), Valor(17)>>,
     <<Nulo, Valor(20)>>, <<Valor(3), Nulo>>, <<Nulo, Nulo>>}

ArchivosMomentos ==
    {<<Fila(1, 1, t, "#", "NULL", "NULL", mc[1], mc[2])>> :
        t \in {"atacar", "defensa"}, mc \in Marcadores}

ReimportarEliminarMomentos == ReimportarEliminar(1)

ReimportarArchivoMomentos == \E archivo \in ArchivosMomentos : ReimportarArchivo(1, archivo)

ReimportarFinMomentos == ReimportarFin(1)

NextMomentos ==
    \/ ReimportarEliminarMomentos
    \/ ReimportarArchivoMomentos
    \/ ReimportarFinMomentos

SpecMomentos == Init /\ [][NextMomentos]_vars

(***************************************************************************)
(* Specification for the zone and rotation aggregates: one session         *)
(* reimports files of a colocación followed by an attack, with zone and    *)
(* rotation labels in either letter case or missing, in set 1 or 2.        *)
(***************************************************************************)
ArchivosZona ==
    {<<Fila(1, s, "colocación", "+", "NULL", rc, Nulo, Nulo),
       Fila(2, s, "atacar", "#", z, rc, Nulo, Nulo)>> :
        s \in {1, 2}, z \in {"Z4", "z4", "Z2", "NULL"}, rc \in {"P1", "p1", "P2", "NULL"}}

ReimportarEliminarZona == ReimportarEliminar(1)

ReimportarArchivoZona == \E archivo \in ArchivosZona : ReimportarArchivo(1, archivo)

ReimportarFinZona == ReimportarFin(1)

NextZona ==
    \/ ReimportarEliminarZona
    \/ ReimportarArchivoZona
    \/ ReimportarFinZona

SpecZona == Init /\ [][NextZona]_vars

(***************************************************************************)
(* Specification for the memoized reads: one session imports and           *)
(* reimports attacks while reader sessions ask for the summary of          *)
(* partido 1.                                                              *)
(***************************************************************************)
FilasLectura == {Fila(1, 1, "atacar", m, "NULL", "NULL", Nulo, Nulo) : m \in {"#", "="}}

ArchivosLectura == {<<fila>> : fila \in FilasLectura}

ImportarPartidoLectura == ImportarInsertarPartido(1)

ImportarAccionLectura == \E fila \in FilasLectura : ImportarInsertarAccion(1, fila)

ImportarConfirmarLectura == ImportarConfirmar(1)

ImportarLimpiarCacheLectura == ImportarLimpiarCache(1)

ReimportarEliminarLectura == ReimportarEliminar(1)

ReimportarArchivoLectura == \E archivo \in ArchivosLectura : ReimportarArchivo(1, archivo)

ReimportarFinLectura == ReimportarFin(1)

LlamarResumenLectura == \E l \in Lectores : LlamarResumen(l, {1})

GuardarResumenLectura == \E l \in Lectores : GuardarResumen(l)

CacheExpiraLectura == \E k \in DOMAIN cache_data : CacheExpira(k)

NextLectura ==
    \/ ImportarPartidoLectura
    \/ ImportarAccionLectura
    \/ ImportarConfirmarLectura
    \/ ImportarLimpiarCacheLectura
    \/ ReimportarEliminarLectura
    \/ ReimportarArchivoLectura
    \/ ReimportarFinLectura
    \/ LlamarResumenLectura
    \/ GuardarResumenLectura
    \/ CacheExpiraLectura

SpecLectura == Init /\ [][NextLectura]_vars

(***************************************************************************)
(* Specification for the error counts: one session reimports one-row files *)
(* of attacks, blocks and digs of two players, marked '=', '/' or '#'.     *)
(***************************************************************************)
ArchivosErrores ==
    {<<Fila(j, 1, t, m, "NULL", "NULL", Nulo, Nulo)>> :
        j \in {1, 2}, t \in {"atacar", "bloqueo", "defensa"}, m \in {"=", "/", "#"}}

ReimportarEliminarErrores == ReimportarEliminar(1)

ReimportarArchivoErrores == \E archivo \in ArchivosErrores : ReimportarArchivo(1, archivo)

ReimportarFinErrores == ReimportarFin(1)

NextErrores ==
    \/ ReimportarEliminarErrores
    \/ ReimportarArchivoErrores
    \/ ReimportarFinErrores

SpecErrores == Init /\ [][NextErrores]_vars

(***************************************************************************)
(* Specification for the file names: two sessions import and reimport      *)
(* files drawn from two names.                                             *)
(***************************************************************************)
NombresArchivo == {1, 2}

FilasDuplicados == {Fila(1, 1, "atacar", "#", "NULL", "NULL", Nulo, Nulo)}

ImportarPartidoDuplicados ==
    \E s \in Sesiones : \E nombre \in NombresArchivo : ImportarInsertarPartidoDe(s, nombre)

ImportarAccionDuplicados ==
    \E s \in Sesiones : \E fila \in FilasDuplicados : ImportarInsertarAccion(s, fila)

ImportarConfirmarDuplicados == \E s \in Sesiones : ImportarConfirmar(s)

ImportarLimpiarCacheDuplicados == \E s \in Sesiones : ImportarLimpiarCache(s)

ReimportarEliminarDuplicados == \E s \in Sesiones : ReimportarEliminar(s)

ReimportarArchivoDuplicados ==
    \E s \in Sesiones : \E nombre \in NombresArchivo : \E fila \in FilasDuplicados :
        ReimportarArchivoDe(s, nombre, <<fila>>)

ReimportarFinDuplicados == \E s \in Sesiones : ReimportarFin(s)

NextDuplicados ==
    \/ ImportarPartidoDuplicados
    \/ ImportarAccionDuplicados
    \/ ImportarConfirmarDuplicados
    \/ ImportarLimpiarCacheDuplicados
    \/ ReimportarEliminarDuplicados
    \/ ReimportarArchivoDuplicados
    \/ ReimportarFinDuplicados

SpecDuplicados == Init /\ [][NextDuplicados]_vars

(***************************************************************************)
(* Specification for the failures of the bulk reimport: one session        *)
(* reimports files of one row, some with an empty set_numero cell.         *)
(***************************************************************************)
ArchivosReimportar ==
    {<<Fila(1, sn, "atacar", m, "NULL", "NULL", Nulo, Nulo)>> : sn \in {1, SetVacio}, m \in {"#", "+", "="}}

ReimportarEliminarReimportar == ReimportarEliminar(1)

ReimportarArchivoReimportar ==
    \E nombre \in NombresArchivo : \E archivo \in ArchivosReimportar :
        ReimportarArchivoDe(1, nombre, archivo)

ReimportarArchivoFallaReimportar ==
    \E nombre \in NombresArchivo : \E archivo \in ArchivosReimportar :
        ReimportarArchivoFalla(1, nombre, archivo)

ReimportarFinReimportar == ReimportarFin(1)

NextReimportar ==
    \/ ReimportarEliminarReimportar
    \/ ReimportarArchivoReimportar
    \/ ReimportarArchivoFallaReimportar
    \/ ReimportarFinReimportar

SpecReimportar == Init /\ [][NextReimportar]_vars

(***************************************************************************)
(* Specification for the single import with failures: two sessions import  *)
(* attacks of two players row by row; a row with an empty set_numero cell  *)
(* makes the import raise.                                                 *)
(***************************************************************************)
FilasImportar ==
    {Fila(j, sn, "atacar", "#", "NULL", "NULL", Nulo, Nulo) : j \in {1, 2}, sn \in {1, SetVacio}}

ImportarPartidoImportar == \E s \in Sesiones : ImportarInsertarPartido(s)

ImportarAccionImportar ==
    \E s \in Sesiones : \E fila \in FilasImportar : ImportarInsertarAccion(s, fila)

ImportarFallaImportar == \E s \in Sesiones : \E fila \in FilasImportar : ImportarFalla(s, fila)

ImportarConfirmarImportar == \E s \in Sesiones : ImportarConfirmar(s)

ImportarLimpiarCacheImportar == \E s \in Sesiones : ImportarLimpiarCache(s)

NextImportar ==
    \/ ImportarPartidoImportar
    \/ ImportarAccionImportar
    \/ ImportarFallaImportar
    \/ ImportarConfirmarImportar
    \/ ImportarLimpiarCacheImportar

SpecImportar == Init /\ [][NextImportar]_vars

(***************************************************************************)
(* Specification for the persistent sessions: two browser sessions log in  *)
(* through the sidebar and log out.                                        *)
(***************************************************************************)
SidebarLoginCorrectoSesiones ==
    \E s \in Sesiones : \E usuario \in Usuarios : SidebarLoginCorrecto(s, usuario)

CrearSesionInsertarSesiones == \E s \in Sesiones : CrearSesionInsertar(s)

LogoutSesiones == \E s \in Sesiones : Logout(s)

ExpiraSesionSesiones == \E r \in sesiones : ExpiraSesion(r)

NextSesiones ==
    \/ SidebarLoginCorrectoSesiones
    \/ CrearSesionInsertarSesiones
    \/ LogoutSesiones
    \/ ExpiraSesionSesiones

SpecSesiones == Init /\ [][NextSesiones]_vars

(***************************************************************************)
(* Specification for the login forms: one browser session tries            *)
(* credentials in the sidebar and in the inline form while time passes.    *)
(***************************************************************************)
Esperas == {30, 60}

SidebarDesbloquearLogin == SidebarDesbloquear(1)

SidebarLoginFallidoLogin == SidebarLoginFallido(1)

SidebarLoginCorrectoLogin == SidebarLoginCorrecto(1, 1)

CrearSesionInsertarLogin == CrearSesionInsertar(1)

InlineLoginLogin == \E credencial \in Credenciales : InlineLogin(1, credencial)

LogoutLogin == Logout(1)

TickLogin == \E d \in Esperas : Tick(d)

NextLogin ==
    \/ SidebarDesbloquearLogin
    \/ SidebarLoginFallidoLogin
    \/ SidebarLoginCorrectoLogin
    \/ CrearSesionInsertarLogin
    \/ InlineLoginLogin
    \/ LogoutLogin
    \/ TickLogin

SpecLogin == Init /\ [][NextLogin]_vars

(***************************************************************************)
(* Specification for the two ways of rounding: one session reimports files *)
(* of one player's attacks or serves, in blocks of sixteen, eight or five  *)
(* rows.                                                                   *)
(***************************************************************************)
FormasRedondeo == {<<1, 15>>, <<3, 13>>, <<9, 7>>, <<1, 7>>, <<3, 2>>}

ArchivosRedondeo ==
    {Bloque(j, t, forma) : j \in {1, 2}, t \in {"atacar", "saque"}, forma \in FormasRedondeo}

ReimportarEliminarRedondeo == ReimportarEliminar(1)

ReimportarArchivoRedondeo == \E archivo \in ArchivosRedondeo : ReimportarArchivo(1, archivo)

ReimportarFinRedondeo == ReimportarFin(1)

NextRedondeo ==
    \/ ReimportarEliminarRedondeo
    \/ ReimportarArchivoRedondeo
    \/ ReimportarFinRedondeo

SpecRedondeo == Init /\ [][NextRedondeo]_vars

TypeOK ==
    /\ partidos_new \subseteq 1..MaxPartidos
    /\ seq_partido \in 0..MaxPartidos
    /\ \A s \in Sesiones : sesion[s].pc \in {"inicio", "importando", "confirmado", "reimportando"}
    /\ \A l \in Lectores : lector[l].pc \in {"inicio", "calculado", "devuelto"}

(***************************************************************************)
(* Reference reading of the phase rules, stated on the full id-ordered     *)
(* sequence M of one match: the predecessor of row n within the action     *)
(* types T is the closest earlier row whose type is in T.                  *)
(***************************************************************************)
Partido(p) == SelectSeq(Visibles, LAMBDA a : a.partido_id = p)

Ataques(M) == {n \in DOMAIN M : M[n].tipo_accion = "atacar"}

Previa(M, n, T) ==
    LET antes == {j \in 1..(n - 1) : M[j].tipo_accion \in T}
    IN  IF antes = {} THEN 0 ELSE CHOOSE j \in antes : \A k \in antes : k <= j

TipoPrevio(M, n, T) == IF Previa(M, n, T) = 0 THEN "NULL" ELSE M[Previa(M, n, T)].tipo_accion

TipoPrevio2(M, n, T) ==
    IF Previa(M, n, T) = 0 THEN "NULL" ELSE TipoPrevio(M, Previa(M, n, T), T)

TiposSideOut == {"recepción", "colocación", "atacar"}

TiposContra == {"recepción", "colocación", "atacar", "defensa"}

ReglaSideOut(M, n) ==
    \/ TipoPrevio(M, n, TiposSideOut) = "recepción"
    \/ TipoPrevio(M, n, TiposSideOut) = "colocación" /\ TipoPrevio2(M, n, TiposSideOut) = "recepción"

ReglaContra(M, n) ==
    /\ ~ReglaSideOut(M, n)
    /\ \/ TipoPrevio(M, n, TiposContra) = "defensa"
       \/ TipoPrevio(M, n, TiposContra) = "colocación" /\ TipoPrevio2(M, n, TiposContra) = "defensa"

\* The tag obtener_sideout_contraataque gives to the attack at row n of match M
FaseSoc(p, n) ==
    LET M == Partido(p)
        i == Cardinality({j \in 1..n : M[j].tipo_accion \in {"recepción", "atacar", "colocación"}})
    IN  fase_soc(acciones_ordenadas_soc(p), i)

SetsNumero == {1, 2}

\* C1: in every match, the attacks counted as side-out are exactly the attacks
\* whose predecessor among {recepción, colocación, atacar} is a recepción, or a
\* colocación that itself follows a recepción -- in the overall classification
\* and in the per-match side-out count.
C1_SideOutRule ==
    \A p \in partidos_new :
        LET M == Partido(p)
            regla == {n \in Ataques(M) : ReglaSideOut(M, n)}
        IN  /\ \A n \in Ataques(M) : (FaseSoc(p, n) = "Side-out") <=> (n \in regla)
            /\ obtener_sideout_por_partido[p].total_sideout = Cardinality(regla)

\* C2: in every match, an attack that is not side-out is counted as
\* counter-attack exactly when its predecessor is a defensa, or a colocación
\* that itself follows a defensa -- in the overall classification and in the
\* per-set counts.
C2_CounterAttackRule ==
    \A p \in partidos_new :
        LET M == Partido(p)
        IN  /\ \A n \in Ataques(M) :
                  ~ReglaSideOut(M, n) =>
                      ((FaseSoc(p, n) = "Contraatac") <=> ReglaContra(M, n))
            /\ \A sn \in SetsNumero :
                  LET S == acciones_ordenadas_set({p}, sn)
                  IN  \A i \in Ataques(S) :
                          ~es_sideout(S, i) =>
                              (es_contraataque(S, i) <=>
                                  (\/ LAG(S, i, 1) = "defensa"
                                   \/ LAG(S, i, 1) = "colocación" /\ LAG(S, i, 2) = "defensa"))

\* C3: an attack that matches neither the side-out pattern nor the
\* counter-attack pattern is counted in neither aggregate of the overall
\* classification: the two totals count only attacks that match a pattern.
C3_UnclassifiedFallThrough ==
    \A p \in partidos_new :
        LET M == Partido(p)
            r == obtener_sideout_contraataque({p})
        IN  /\ \A n \in Ataques(M) :
                  (~ReglaSideOut(M, n) /\ ~ReglaContra(M, n)) =>
                      FaseSoc(p, n) \notin {"Side-out", "Contraatac"}
            /\ TotalFase(r, "Side-out") + TotalFase(r, "Contraatac")
                  = Cardinality({n \in Ataques(M) : ReglaSideOut(M, n) \/ ReglaContra(M, n)})

\* C4: the lookback aggregates computed over two matches together equal the
\* sum of the aggregates computed over each match alone.
C4_MatchBoundaryIsolation ==
    \A p \in partidos_new : \A q \in partidos_new :
        p # q =>
            /\ \A sn \in SetsNumero :
                  /\ obtener_sideout_por_set({p, q}, sn).total_sideout
                        = obtener_sideout_por_set({p}, sn).total_sideout
                          + obtener_sideout_por_set({q}, sn).total_sideout
                  /\ obtener_sideout_por_set({p, q}, sn).total_contraataque
                        = obtener_sideout_por_set({p}, sn).total_contraataque
                          + obtener_sideout_por_set({q}, sn).total_contraataque
            /\ Cardinality(ataques_colocados({p, q}))
                  = Cardinality(ataques_colocados({p})) + Cardinality(ataques_colocados({q}))
            /\ \A f \in {"Side-out", "Contraatac"} :
                  TotalFase(obtener_sideout_contraataque({p, q}), f)
                      = TotalFase(obtener_sideout_contraataque({p}), f)
                        + TotalFase(obtener_sideout_contraataque({q}), f)

\* Attacks the overall classification drops (fase IS NULL)
SinClasificarSoc(p) == Cardinality({r \in ataques_clasificados({p}) : r.fase = "NULL"})

\* Attacks of a set window that are neither side-out nor counter-attack
SinClasificarSet(S) == Cardinality({i \in Ataques(S) : ~es_sideout(S, i) /\ ~es_contraataque(S, i)})

\* C5: in every match the side-out, counter-attack and unclassified counts add
\* up to the number of attacks of the match, and no attack is counted both as
\* side-out and as counter-attack -- in the overall classification and in the
\* per-set counts.
C5_PhaseExhaustive ==
    \A p \in partidos_new :
        LET M == Partido(p)
            r == obtener_sideout_contraataque({p})
        IN  /\ TotalFase(r, "Side-out") + TotalFase(r, "Contraatac") + SinClasificarSoc(p)
                  = Cardinality(Ataques(M))
            /\ \A sn \in SetsNumero :
                  LET S == acciones_ordenadas_set({p}, sn)
                      t == obtener_sideout_por_set({p}, sn)
                  IN  /\ t.total_sideout + t.total_contraataque + SinClasificarSet(S)
                            = Cardinality(Ataques(S))
                      /\ \A i \in Ataques(S) : ~(es_sideout(S, i) /\ es_contraataque(S, i))

\* Witness of C5: a committed match with two attacks, one counted as side-out
\* and one that the per-set counts leave unclassified while the overall
\* classification counts it as counter-attack.
C5_Witness ==
    \E p \in partidos_new :
        /\ Cardinality(Ataques(Partido(p))) = 2
        /\ obtener_sideout_por_set({p}, 1).total_sideout = 1
        /\ obtener_sideout_por_set({p}, 1).total_contraataque = 0
        /\ SinClasificarSet(acciones_ordenadas_set({p}, 1)) = 1
        /\ TotalFase(obtener_sideout_contraataque({p}), "Side-out") = 1
        /\ TotalFase(obtener_sideout_contraataque({p}), "Contraatac") = 1

(***************************************************************************)
(* Metric claims.                                                          *)
(***************************************************************************)
\* Every non-empty selection of committed partidos
Selecciones == (SUBSET partidos_new) \ {{}}

\* x is num/den rounded to the nearest integer
Redondeado(x, num, den) == x # Nulo /\ 2 * Abs(x[1] * den - num) <= den

FilasDeTipo(S, t) == {i \in DOMAIN S : S[i].tipo_accion = t}

FilasDeMarca(S, t, m) == {i \in FilasDeTipo(S, t) : S[i].marca = m}

\* g is the MetricResult of the rows of type t in S, as the formula defines it
EsMetrica(g, S, t) ==
    LET total == Cardinality(FilasDeTipo(S, t))
        n(m) == Cardinality(FilasDeMarca(S, t, m))
    IN  /\ g.total = total
        /\ g.puntos = n("#")
        /\ g.positivos = n("+")
        /\ g.errores = n("=")
        /\ Redondeado(g.eficacia, 1000 * (n("#") + n("+")), total)
        /\ Redondeado(g.eficiencia, 1000 * (n("#") - n("=")), total)

\* C6: for every non-empty group of actions (one action type in one partido or
\* in a selection of partidos) the summary reports the group, and its efficacy
\* is (points + positives) / total * 100 and its efficiency is
\* (points - errors) / total * 100, each rounded to one decimal.
C6_MetricFormula ==
    /\ \A p \in partidos_new :
          LET S == Partido(p)
              r == obtener_resumen_acciones(p)
          IN  \A t \in acciones_validas :
                  FilasDeTipo(S, t) # {} => (t \in DOMAIN r /\ EsMetrica(r[t], S, t))
    /\ \A ids \in Selecciones :
          LET S == SelectSeq(Visibles, LAMBDA a : a.partido_id \in ids)
              r == obtener_resumen_acciones_multi(ids)
          IN  \A t \in acciones_validas :
                  FilasDeTipo(S, t) # {} => (t \in DOMAIN r /\ EsMetrica(r[t], S, t))

\* Witness of C6: a group of three attacks, two of them '#' or '+', reported
\* with efficacy 66.7, and a group whose efficiency is negative and not a
\* whole percentage.
C6_Witness ==
    \E p \in partidos_new :
        /\ "atacar" \in DOMAIN obtener_resumen_acciones(p)
        /\ obtener_resumen_acciones(p)["atacar"].total = 3
        /\ obtener_resumen_acciones(p)["atacar"].eficacia = Valor(667)
        /\ obtener_resumen_acciones(p)["atacar"].eficiencia = Valor(-333)

\* The six mark counts of a reported group add up to its total
SumaMarcas(g) ==
    g.puntos + g.positivos + g.neutros + g.negativos + g.errores_forzados + g.errores

\* C7: in every group the summary reports, of one partido or of a selection,
\* points + positives + neutrals + negatives + forced errors + errors = total.
C7_PartitionCompleteness ==
    /\ \A p \in partidos_new :
          \A t \in DOMAIN obtener_resumen_acciones(p) :
              SumaMarcas(obtener_resumen_acciones(p)[t]) = obtener_resumen_acciones(p)[t].total
    /\ \A ids \in Selecciones :
          \A t \in DOMAIN obtener_resumen_acciones_multi(ids) :
              SumaMarcas(obtener_resumen_acciones_multi(ids)[t])
                  = obtener_resumen_acciones_multi(ids)[t].total

\* C8: for every non-empty group, efficacy lies in 0..100 and efficiency in
\* -100..100 -- in the summary computed in pandas and in the team average
\* computed in SQL.
C8_MetricBounds ==
    \A ids \in Selecciones :
        LET r == obtener_resumen_acciones_multi(ids)
            m == obtener_media_equipo(ids)
        IN  /\ \A t \in DOMAIN r :
                  /\ r[t].eficacia # Nulo /\ r[t].eficiencia # Nulo
                  /\ 0 <= r[t].eficacia[1] /\ r[t].eficacia[1] <= 1000
                  /\ -1000 <= r[t].eficiencia[1] /\ r[t].eficiencia[1] <= 1000
            /\ \A t \in DOMAIN m :
                  /\ m[t].eficacia_media # Nulo /\ m[t].eficiencia_media # Nulo
                  /\ 0 <= m[t].eficacia_media[1] /\ m[t].eficacia_media[1] <= 1000
                  /\ -1000 <= m[t].eficiencia_media[1] /\ m[t].eficiencia_media[1] <= 1000

\* Witness of C8: a selection of two partidos whose attacks reach both ends of
\* the ranges: every serve a point, every attack an error.
C8_Witness ==
    \E ids \in Selecciones :
        /\ Cardinality(ids) = 2
        /\ DOMAIN obtener_resumen_acciones_multi(ids) = {"atacar", "saque"}
        /\ obtener_resumen_acciones_multi(ids)["saque"].eficacia = Valor(1000)
        /\ obtener_resumen_acciones_multi(ids)["atacar"].eficacia = Valor(0)
        /\ obtener_resumen_acciones_multi(ids)["atacar"].eficiencia = Valor(-1000)
        /\ obtener_media_equipo(ids)["atacar"].eficiencia_media = Valor(-1000)
        /\ obtener_media_equipo(ids)["saque"].eficacia_media = Valor(1000)

\* C9: a group with zero actions has null efficacy and efficiency and zero
\* counts -- an action type absent from a critical-moment bucket, and the attack
\* entry of the card of a player without attacks.
C9_EmptyAggregate ==
    \A ids \in Selecciones :
        /\ \A k \in DOMAIN obtener_momentos_criticos(ids) :
              LET st == obtener_momentos_criticos(ids)[k]
              IN  /\ st.total_ataques = 0 => (st.eficacia_ataque = Nulo /\ st.puntos_ataque = 0)
                  /\ st.total_recepciones = 0 => st.eficacia_recepcion = Nulo
                  /\ st.total_saques = 0 => (st.eficacia_saque = Nulo /\ st.puntos_saque = 0)
                  /\ st.total_bloqueos = 0 => (st.eficacia_bloqueo = Nulo /\ st.puntos_bloqueo = 0)
        /\ \A j \in jugadores :
              LET f == ficha_ataque(ids, j)
              IN  f.total = 0 => (f.puntos = 0 /\ f.eficacia = Nulo /\ f.eficiencia = Nulo)

(***************************************************************************)
(* Ranking claims.                                                         *)
(***************************************************************************)
\* The rows of type t by player j in the partidos ids
FilasJugador(ids, t, j) ==
    LET V == Visibles
    IN  {i \in DOMAIN V : V[i].partido_id \in ids /\ V[i].tipo_accion = t /\ V[i].jugador_id = j}

\* E is a correct ranking of type t over the partidos ids: exactly the players
\* with five or more actions, one entry each, with their efficacy, ranks
\* 1..N, and a smaller rank never has a smaller efficacy.
RankingCorrecto(E, ids, t) ==
    /\ {e.jugador_id : e \in E} = {j \in jugadores : Cardinality(FilasJugador(ids, t, j)) >= 5}
    /\ \A e, d \in E : e.jugador_id = d.jugador_id => e = d
    /\ {e.ranking : e \in E} = 1..Cardinality(E)
    /\ \A e \in E :
          LET V == Visibles
              F == FilasJugador(ids, t, e.jugador_id)
          IN  Redondeado(e.eficacia,
                         1000 * Cardinality({i \in F : V[i].marca \in {"#", "+"}}),
                         Cardinality(F))
    /\ \A e, d \in E : e.ranking < d.ranking => e.eficacia[1] >= d.eficacia[1]

\* The ranking by selection lists its rows in rank order, for every action type
RankingEquipoCorrecto ==
    \A ids \in Selecciones : \A t \in acciones_validas :
        \A R \in obtener_ranking_equipo(ids, t) :
            /\ \A i \in DOMAIN R : R[i].ranking = i
            /\ \A i \in DOMAIN R : R[i].total = Cardinality(FilasJugador(ids, t, R[i].jugador_id))
            /\ RankingCorrecto({R[i] : i \in DOMAIN R}, ids, t)

\* The entries of type t in a frame of the all-actions ranking
EntradasDeTipo(R, t) == {R[i] : i \in {k \in DOMAIN R : R[k].tipo_accion = t}}

C11_RankingDeterminism ==
    /\ \A ids \in Selecciones : \A t \in acciones_validas :
          Cardinality(obtener_ranking_equipo(ids, t)) = 1
    /\ Cardinality(obtener_rankings_todas_acciones) = 1

(***************************************************************************)
(* Badge claims.  A badge rule is named by the title of its badge.         *)
(***************************************************************************)
\* The rows of player j in partido p
FilasPartidoJugador(p, j) ==
    LET V == Visibles
    IN  {i \in DOMAIN V : V[i].partido_id = p /\ V[i].jugador_id = j}

\* The number of rows of player j in partido p with a type in T and a mark in M
Cuenta(p, j, T, M) ==
    LET V == Visibles
    IN  Cardinality({i \in FilasPartidoJugador(p, j) :
                        V[i].tipo_accion \in T /\ V[i].marca \in M})

TodasLasMarcas == marcas_validas \cup {"NaN", "x"}

\* Efficacy of player j in partido p for type t is at least e tenths of a
\* percent, efficacy being rounded to one decimal
EficaciaAlMenos(p, j, t, e) ==
    \E v \in e..1000 :
        Redondeado(Valor(v), 1000 * Cuenta(p, j, {t}, {"#", "+"}), Cuenta(p, j, {t}, TodasLasMarcas))

\* Player j meets the threshold of the rule with the given title in partido p
Cumple(titulo, p, j) ==
    CASE titulo = "Millor Atacant" ->
            Cuenta(p, j, {"atacar"}, TodasLasMarcas) >= 5 /\ EficaciaAlMenos(p, j, "atacar", 500)
      [] titulo = "Recepció d'Or" ->
            Cuenta(p, j, {"recepción"}, TodasLasMarcas) >= 10 /\ EficaciaAlMenos(p, j, "recepción", 600)
      [] titulo = "Màquina de Aces" -> Cuenta(p, j, {"saque"}, {"#"}) >= 3
      [] titulo = "El Muro" -> Cuenta(p, j, {"bloqueo"}, {"#"}) >= 3
      [] titulo = "10+ Punts" -> Cuenta(p, j, {"atacar", "saque", "bloqueo"}, {"#"}) >= 10
      [] titulo = "Partit Perfecte" ->
            /\ Cuenta(p, j, acciones_validas, TodasLasMarcas) >= 10
            /\ Cuenta(p, j, acciones_validas, {"="}) = 0

Titulos ==
    {"Millor Atacant", "Recepció d'Or", "Màquina de Aces", "El Muro", "10+ Punts", "Partit Perfecte"}

\* The frame B holds a badge of the rule for partido p (and player j)
HayBadge(B, titulo, p) == \E i \in DOMAIN B : B[i].titulo = titulo /\ B[i].partido_id = p

HayBadgeDe(B, titulo, p, j) ==
    \E i \in DOMAIN B : B[i].titulo = titulo /\ B[i].partido_id = p /\ B[i].jugador = j

\* C12: for every rule, every player who meets the rule's threshold in a
\* partido receives that rule's badge for that partido, however many other
\* players qualify and however many rules the player meets.
C12_BadgesPerPlayer ==
    \A B \in obtener_badges_equipo : \A p \in partidos_new : \A j \in jugadores :
        \A titulo \in Titulos : Cumple(titulo, p, j) => HayBadgeDe(B, titulo, p, j)

Buckets == {"inicio_set", "ajustados", "final_set", "general"}

\* The action a belongs to bucket k, as the claim defines membership
EnBucket(a, k) ==
    /\ a.puntos_local # Nulo /\ a.puntos_visitante # Nulo
    /\ LET h == a.puntos_local[1]
           v == a.puntos_visitante[1]
           lider == IF h >= v THEN h ELSE v
       IN  CASE k = "inicio_set" -> lider <= 5
             [] k = "ajustados" -> Abs(h - v) <= 2 /\ lider >= 18
             [] k = "final_set" -> lider >= 20
             [] OTHER -> TRUE

\* The number of actions of type t of the partidos ids that belong to bucket k
EnBucketDeTipo(ids, k, t) ==
    LET V == Visibles
    IN  Cardinality({i \in DOMAIN V :
                        V[i].partido_id \in ids /\ V[i].tipo_accion = t /\ EnBucket(V[i], k)})

\* C16: an action with both scores is in inicio_set iff the leading score is
\* at most 5, in ajustados iff the difference is at most 2 and the leading
\* score at least 18, in final_set iff the leading score is at least 20, and
\* always in general; every bucket counts each of its actions, whatever other
\* buckets the action is in, and an action with a null score is in no bucket.
C16_CriticalBuckets ==
    \A ids \in Selecciones :
        LET r == obtener_momentos_criticos(ids)
        IN  \A k \in Buckets :
                /\ k \in DOMAIN r <=>
                      \E t \in acciones_validas : EnBucketDeTipo(ids, k, t) > 0
                /\ k \in DOMAIN r =>
                      /\ r[k].total_ataques = EnBucketDeTipo(ids, k, "atacar")
                      /\ r[k].total_recepciones = EnBucketDeTipo(ids, k, "recepción")
                      /\ r[k].total_saques = EnBucketDeTipo(ids, k, "saque")
                      /\ r[k].total_bloqueos = EnBucketDeTipo(ids, k, "bloqueo")

\* Witness of C16: of two attacks, the one at 19-20 is counted in ajustados,
\* in final_set and in general, and the one without a home score in none.
C16_Witness ==
    \E ids \in Selecciones :
        /\ Len(AccionesDe(ids)) = 2
        /\ \E i \in 1..2 : AccionesDe(ids)[i].puntos_local = Nulo
                              /\ AccionesDe(ids)[i].tipo_accion = "atacar"
        /\ DOMAIN obtener_momentos_criticos(ids) = {"ajustados", "final_set", "general"}
        /\ obtener_momentos_criticos(ids)["ajustados"].total_ataques = 1
        /\ obtener_momentos_criticos(ids)["final_set"].total_ataques = 1
        /\ obtener_momentos_criticos(ids)["general"].total_ataques = 1

(***************************************************************************)
(* Zone and rotation claims.                                               *)
(***************************************************************************)
\* The rows of the frame D whose zona column is z
FilasDeZona(D, z) == {k \in DOMAIN D : D[k].zona = z}

\* The sum of the counts of the rows K of the frame D
RECURSIVE SumaColocaciones(_, _)
SumaColocaciones(D, K) ==
    IF K = {} THEN 0
    ELSE LET k == CHOOSE x \in K : TRUE
         IN  D[k].colocaciones + SumaColocaciones(D, K \ {k})

\* D is a correct per-zone distribution of the qualifying attacks Q of the
\* window S: every zone label has one percentage, its number of attacks with
\* a zone over the number of all qualifying attacks with a zone, and the
\* counts of the zones add up to that number.
DistribucionCorrecta(D, S, Q) ==
    /\ \A z \in {UPPER(S[i].zona_jugador) : i \in Q} :
          \A k \in FilasDeZona(D, z) :
              /\ D[k].colocaciones = Cardinality({i \in Q : UPPER(S[i].zona_jugador) = z})
              /\ Redondeado(D[k].porcentaje, 1000 * D[k].colocaciones, Cardinality(Q))
    /\ {D[k].zona : k \in DOMAIN D} = {UPPER(S[i].zona_jugador) : i \in Q}
    /\ SumaColocaciones(D, DOMAIN D) = Cardinality(Q)

\* C17: in the per-zone distribution, of a selection or of one set of it, each
\* zone's percentage is its attack count over the number of qualifying
\* attacks with a zone; attacks without a zone count on neither side, and the
\* zone counts add up to the denominator.
C17_ZonePercentage ==
    \A ids \in Selecciones :
        /\ DistribucionCorrecta(obtener_distribucion_colocador(ids), AccionesDe(ids),
                                ataques_colocados(ids))
        /\ \A s \in SetsNumero :
              DistribucionCorrecta(obtener_distribucion_colocador_por_set(ids, s),
                                   acciones_ordenadas_set(ids, s),
                                   ataques_colocados_set(ids, s))

Rotaciones == {"P1", "P2", "P3", "P4", "P5", "P6"}

\* C18: the rotation aggregates always report the six rotations P1..P6; a
\* rotation without attacks has a row with count zero and null efficacy.
C18_FixedRotationGrid ==
    \A ids \in Selecciones :
        /\ \A rot \in Rotaciones :
              \E k \in DOMAIN obtener_ataque_por_rotacion(ids) :
                  /\ obtener_ataque_por_rotacion(ids)[k].rotacion = rot
                  /\ (\A i \in ataques_con_rotacion(ids) :
                          UPPER(AccionesDe(ids)[i].zona_colocador) # rot)
                        => /\ obtener_ataque_por_rotacion(ids)[k].total = 0
                           /\ obtener_ataque_por_rotacion(ids)[k].eficacia = Nulo
        /\ \A rot \in Rotaciones :
              \E k \in DOMAIN obtener_distribucion_por_rotacion(ids) :
                  UPPER(obtener_distribucion_por_rotacion(ids)[k].rotacion) = rot

\* C28: in the rotation/zone matrix each reported (rotacion, zona) key, and in
\* the per-zone distribution and the attack-per-rotation table each reported
\* zona, respectively rotacion, is the key of at most one output row.
C28_UniqueMatrixKeys ==
    \A ids \in Selecciones :
        LET M == obtener_distribucion_por_rotacion(ids)
            D == obtener_distribucion_colocador(ids)
            R == obtener_ataque_por_rotacion(ids)
        IN  /\ \A k \in DOMAIN M : \A q \in DOMAIN M :
                  (M[k].rotacion = M[q].rotacion /\ M[k].zona = M[q].zona) => k = q
            /\ \A k \in DOMAIN D : \A q \in DOMAIN D : D[k].zona = D[q].zona => k = q
            /\ \A k \in DOMAIN R : \A q \in DOMAIN R : R[k].rotacion = R[q].rotacion => k = q

(***************************************************************************)
(* Ingestion claims.                                                       *)
(***************************************************************************)
\* C19: no stored action, of a single import or of a bulk reimport, has an
\* action type outside the six valid ones or a mark outside the six valid
\* ones, a missing mark included.
C19_IngestionValidation ==
    \A i \in DOMAIN acciones_new :
        /\ acciones_new[i].tipo_accion \in acciones_validas
        /\ acciones_new[i].marca \in marcas_validas

(***************************************************************************)
(* Concurrency claims.                                                     *)
(***************************************************************************)
\* C20: a call of an engine operation returns the result computed from the
\* action log as it is at the call, never the result of an earlier log, in
\* every interleaving of readers with a writer that commits and then clears
\* the memoized results.
C20_Stateless ==
    \A l \in Lectores :
        lector[l].pc = "devuelto" => lector[l].resultado = lector[l].esperado

(***************************************************************************)
(* Lookback over interposed actions.                                       *)
(***************************************************************************)
\* The recepción that opens the side-out pattern of the attack at row n of M
RecepcionDe(M, n) ==
    IF TipoPrevio(M, n, TiposSideOut) = "recepción"
    THEN Previa(M, n, TiposSideOut)
    ELSE Previa(M, Previa(M, n, TiposSideOut), TiposSideOut)

\* Some action of another type lies between that recepción and the attack
Interpuesta(M, n) ==
    \E j \in (RecepcionDe(M, n) + 1)..(n - 1) : M[j].tipo_accion \notin TiposSideOut

\* Position of row n of M in the window of its set
PosicionEnSet(M, n) == Cardinality({j \in 1..n : M[j].set_numero = M[n].set_numero})

\* C21: an attack that follows a recepción (or a recepción and then a
\* colocación) with saque, defensa or bloqueo actions lying in between is
\* counted as side-out by the overall classification, by the per-match count
\* and by the per-set count.
C21_LookbackFiltering ==
    \A p \in partidos_new :
        LET M == Partido(p)
        IN  \A n \in Ataques(M) :
                (ReglaSideOut(M, n) /\ Interpuesta(M, n)) =>
                    /\ FaseSoc(p, n) = "Side-out"
                    /\ es_sideout(acciones_ordenadas_pp(p), n)
                    /\ es_sideout(acciones_ordenadas_set({p}, M[n].set_numero), PosicionEnSet(M, n))

(***************************************************************************)
(* Error claims.                                                           *)
(***************************************************************************)
\* The error rule: a bloqueo marked '/' or '=', any other action marked '='
EsError(a) ==
    \/ a.tipo_accion = "bloqueo" /\ a.marca \in {"=", "/"}
    \/ a.tipo_accion # "bloqueo" /\ a.marca = "="

\* Errors under the rule among the visible actions of the matches ids, of the
\* players J and the action types T
ErroresRegla(ids, J, T) ==
    LET V == Visibles
    IN  Cardinality({i \in DOMAIN V : /\ V[i].partido_id \in ids
                                       /\ V[i].jugador_id \in J
                                       /\ V[i].tipo_accion \in T
                                       /\ EsError(V[i])})

\* C22: every per-type error count follows the rule (bloqueo: '/' or '=';
\* other types: '=' only), in the per-player breakdown, in the player card
\* and in the summary of a match, and a player's error total is the sum of
\* the player's per-type counts under the rule.
C22_ErrorSemantics ==
    \A ids \in Selecciones :
        /\ \A j \in DOMAIN obtener_errores_por_jugador(ids) :
              LET r == obtener_errores_por_jugador(ids)[j]
              IN  /\ r.err_ataque = ErroresRegla(ids, {j}, {"atacar"})
                  /\ r.err_saque = ErroresRegla(ids, {j}, {"saque"})
                  /\ r.err_recepcion = ErroresRegla(ids, {j}, {"recepción"})
                  /\ r.err_bloqueo = ErroresRegla(ids, {j}, {"bloqueo"})
                  /\ r.total_errores = ErroresRegla(ids, {j}, acciones_validas)
        /\ \A j \in jugadores : \A F \in errores_ficha(ids, j) : \A f \in F :
              f.errores = ErroresRegla(ids, {j}, {f.tipo_accion})
        /\ \A p \in ids : \A t \in DOMAIN obtener_resumen_acciones(p) :
              obtener_resumen_acciones(p)[t].errores = ErroresRegla({p}, jugadores, {t})

\* C29: in every row of the error analysis the forced and the unforced errors
\* add up to the total errors of the action type.
C29_ErrorBreakdown ==
    \A ids \in Selecciones :
        \A t \in DOMAIN obtener_analisis_errores(ids) :
            LET r == obtener_analisis_errores(ids)[t]
            IN  r.errores_forzados + r.errores_no_forzados = r.total_errores

(***************************************************************************)
(* Import claims.                                                          *)
(***************************************************************************)
\* C23: the store never holds two matches with the same nombre_archivo.
C23_DuplicateExclusion ==
    \A p \in partidos_new : \A q \in partidos_new :
        p # q => nombre_archivo[p] # nombre_archivo[q]

\* C24: when a bulk reimport run finishes, either no uploaded file failed, or
\* the matches that were stored before the run are still stored.
C24_ReimportPreserves ==
    [][\A s \in Sesiones :
          (sesion[s].pc = "reimportando" /\ sesion'[s].pc = "inicio") =>
              \/ reimport[s].errores = <<>>
              \/ reimport[s].ids_eliminar \subseteq partidos_new']_vars

\* C25: a single import that fails leaves no partido row, no action row and
\* no player row of its own and changes nothing else; a single import that
\* succeeds makes the partido and every row of the file it went through
\* visible together, the action rows in the order of the file.
C25_ImportAtomicity ==
    [][\A s \in Sesiones :
          LET pid == sesion[s].partido_id
          IN  /\ (sesion[s].pc = "importando" /\ sesion'[s].pc = "inicio") =>
                    /\ partidos_new' = partidos_new
                    /\ jugadores' = jugadores
                    /\ acciones_new' = SelectSeq(acciones_new, LAMBDA a : a.partido_id # pid)
                    /\ pid \notin DOMAIN nombre_archivo'
              /\ (sesion[s].pc = "importando" /\ sesion'[s].pc = "confirmado") =>
                    /\ partidos_new' = partidos_new \cup {pid}
                    /\ SelectSeq(acciones_new', LAMBDA a : a.partido_id = pid)
                          = [i \in DOMAIN importacion[s].filas |->
                                AccionImportada(pid, importacion[s].filas[i])]
                    /\ \A i \in DOMAIN importacion[s].filas :
                          importacion[s].filas[i].jugador_apellido \in jugadores']_vars

\* Witness of C25: two imports have run, one failed and one stored its match
\* with two action rows.
C25_Witness ==
    /\ seq_partido = 2
    /\ Cardinality(partidos_new) = 1
    /\ \A s \in Sesiones : sesion[s].pc = "inicio"
    /\ Len(acciones_new) = 2

(***************************************************************************)
(* Access claims.                                                          *)
(***************************************************************************)
\* C26: the sesiones table holds at most one row per usuario_id, and a token
\* removed by a logout or replaced by a later login is not accepted by
\* verificar_sesion.
C26_OneSessionPerUser ==
    /\ \A r \in sesiones : \A q \in sesiones : r.usuario_id = q.usuario_id => r = q
    /\ \A t \in retirados : verificar_sesion(t) = Nulo

C30_OneEfficacyPerGroup ==
    \A ids \in Selecciones :
        LET media == obtener_media_equipo(ids)
            multi == obtener_resumen_acciones_multi(ids)
        IN  /\ \A t \in DOMAIN media :
                  /\ media[t].eficacia_media = multi[t].eficacia
                  /\ media[t].eficiencia_media = multi[t].eficiencia
            /\ \A tipo \in {"atacar", "saque"} :
                  \A R \in obtener_ranking_equipo(ids, tipo) : \A i \in DOMAIN R :
                      R[i].eficacia = obtener_estadisticas_jugador(ids, R[i].jugador_id)[tipo].eficacia

====
